---- MODULE Spec2Model ----
(***************************************************************************)
(* Model of the aggregation layer of linear-dashboards                     *)
(* (src/src/lib/linear-api.ts, src/src/lib/apollo-client.ts):              *)
(* fetchDashboardData with its complexity fallback ladder, the best-effort *)
(* leads query, the per-team tasks fanned out with Promise.all, the        *)
(* cursor pagination of fetchAllCycleIssues and calculateTeamMetrics.      *)
(*                                                                         *)
(* A step of the model is a turn of the event loop: the invocation of      *)
(* fetchDashboardData up to its first await, or the upstream's answer to   *)
(* one request (drawn from a bounded set) with the code that runs on it up *)
(* to the next await, whose request is in flight after the step.           *)
(***************************************************************************)
EXTENDS Integers, Sequences, FiniteSets, TLC

\* ------------------------------------------------------------------ bounds

\* Teams returned by the combined query (Spec).
MaxTeams == 2
\* Follow-up page requests the upstream answers per cycle (Spec).
DashMaxReq == 2
\* Nodes per page (SpecPag).
MaxPageLen == 2
\* Follow-up page requests the upstream answers per cycle (SpecPag).
MaxReq == 2
\* Follow-up page requests the endless upstream answers (SpecLoop).
LoopMaxReq == 1001
\* Issues of the cycle of the consistent upstream (SpecEq).
MaxIssues == 36
\* Issues handed to calculateTeamMetrics (SpecMetrics).
MaxMetricIssues == 3
\* Entries of an errors list (SpecClassify).
MaxErrors == 2
\* Issues whose cycle time is averaged (SpecCycleTime).
MaxCycleIssues == 3
\* Issues handed to calculateTeamMetrics (SpecStateTypes).
MaxStateIssues == 3
\* Issues of the team whose labels are counted (SpecLabels).
MaxLabelIssues == 3
\* Issues of the team whose histories are requested (SpecHistory).
MaxHistoryIssues == 11
\* History requests the upstream answers in any way (SpecHistory).
FreeHistoryAnswers == 3
\* Issues of a team beyond the history sample (SpecSample).
MaxBeyondSample == 2
\* Teams whose histories are requested side by side (SpecFanOut).
MaxFanOutTeams == 2
\* Issues of each of these teams (SpecFanOut).
MaxFanOutIssues == 3
\* Follow-up page requests the upstream answers per cycle (SpecIsolation).
IsoMaxReq == 1
\* Issues of the team whose triage time is averaged (SpecTriage).
MaxTriageIssues == 2
\* Issues of the team whose estimates are written with decimals (SpecPoints).
MaxPointIssues == 3

\* ------------------------------------------------------ JavaScript values

\* undefined where the code reads an optional string, and null as well
\* wherever the code takes the two alike (the cursors, read by truthiness).
\* Null is the null of the upstream's JSON where the code tells it from
\* undefined (issueEstimationType).
Undefined == "<undefined>"
Null == "<null>"

\* `x && ...` on an optional string: undefined, null and "" are falsy.
Truthy(s) == s # Undefined /\ s # Null /\ s # ""

\* A JavaScript number of the configuration: NaN, an integer v, or v and a
\* half (v + 0.5, a double like v itself).
Num(n) == [nan |-> FALSE, v |-> n, half |-> FALSE]
NaN == [nan |-> TRUE, v |-> 0, half |-> FALSE]

\* Twice the number, an integer.
Twice(a) == 2 * a.v + (IF a.half THEN 1 ELSE 0)

MathMin(a, b) ==
    IF a.nan \/ b.nan THEN NaN ELSE IF Twice(a) <= Twice(b) THEN a ELSE b
MathMax(a, b) ==
    IF a.nan \/ b.nan THEN NaN ELSE IF Twice(a) >= Twice(b) THEN a ELSE b

\* a >= b on numbers: false as soon as one side is NaN.
GreaterEq(a, b) == ~a.nan /\ ~b.nan /\ Twice(a) >= Twice(b)

\* A value of process.env: unset, the empty string, the decimal text of an
\* integer ("2"), the decimal text of an integer and a half ("2.5"), or a
\* text that is no number.
EnvUnset ==
    [set |-> FALSE, empty |-> FALSE, numeric |-> FALSE, v |-> 0, half |-> FALSE]
EnvEmpty ==
    [set |-> TRUE, empty |-> TRUE, numeric |-> FALSE, v |-> 0, half |-> FALSE]
EnvInt(n) ==
    [set |-> TRUE, empty |-> FALSE, numeric |-> TRUE, v |-> n, half |-> FALSE]
EnvHalf(n) ==
    [set |-> TRUE, empty |-> FALSE, numeric |-> TRUE, v |-> n, half |-> TRUE]
EnvText ==
    [set |-> TRUE, empty |-> FALSE, numeric |-> FALSE, v |-> 0, half |-> FALSE]

EnvTruthy(e) == e.set /\ ~e.empty

\* Number(s) of a non-empty string: the number the text writes, NaN for a
\* text that writes none.
NumberOf(e) ==
    IF e.numeric THEN [nan |-> FALSE, v |-> e.v, half |-> e.half] ELSE NaN

\* Number(process.env.NEXT_PUBLIC_X || process.env.X || dflt)
ConfigNumber(pub, plain, dflt) ==
    IF EnvTruthy(pub) THEN NumberOf(pub)
    ELSE IF EnvTruthy(plain) THEN NumberOf(plain)
    ELSE Num(dflt)

\* Math.max(1, Math.min(1000, Number(... || 100)))
MaxPagesOf(pub, plain) ==
    MathMax(Num(1), MathMin(Num(1000), ConfigNumber(pub, plain, 100)))

\* ------------------------------------------------------- error messages

\* A string is the sequence of its UTF-16 code units, each a number.

\* The printable ASCII characters in the order of their codes, from the
\* space on (the grave accent, which a string cannot hold, by its name).
Ascii ==
    <<" ", "!", "\"", "#", "$", "%", "&", "'", "(", ")", "*", "+", ",", "-", ".", "/",
      "0", "1", "2", "3", "4", "5", "6", "7", "8", "9", ":", ";", "<", "=", ">", "?",
      "@", "A", "B", "C", "D", "E", "F", "G", "H", "I", "J", "K", "L", "M", "N", "O",
      "P", "Q", "R", "S", "T", "U", "V", "W", "X", "Y", "Z", "[", "\\", "]", "^", "_",
      "U+0060", "a", "b", "c", "d", "e", "f", "g", "h", "i", "j", "k", "l", "m", "n", "o",
      "p", "q", "r", "s", "t", "u", "v", "w", "x", "y", "z", "{", "|", "}", "~">>

\* The code unit of a printable ASCII character, and the code units of a
\* string given by its ASCII characters.
CodeUnit(ch) == 31 + (CHOOSE i \in 1..Len(Ascii) : Ascii[i] = ch)
Chars(s) == [i \in 1..Len(s) |-> CodeUnit(s[i])]

\* seqs[lo] \o ... \o seqs[hi], joined by halves.
RECURSIVE FlattenRange(_, _, _)
FlattenRange(seqs, lo, hi) ==
    IF lo > hi THEN <<>>
    ELSE IF lo = hi THEN seqs[lo]
    ELSE LET mid == (lo + hi) \div 2
         IN  FlattenRange(seqs, lo, mid) \o FlattenRange(seqs, mid + 1, hi)

Flatten(seqs) == FlattenRange(seqs, 1, Len(seqs))

\* The simple lower-case mappings of Unicode (UnicodeData.txt, as of
\* Unicode 17.0): <<first, last, step, delta>> maps every step-th code
\* point c from first to last to c + delta.
LowerCaseRanges ==
    <<<<65, 90, 1, 32>>, <<192, 214, 1, 32>>, <<216, 222, 1, 32>>, <<256, 302, 2, 1>>,
      <<306, 310, 2, 1>>, <<313, 327, 2, 1>>, <<330, 374, 2, 1>>, <<376, 376, 1, -121>>,
      <<377, 381, 2, 1>>, <<385, 385, 1, 210>>, <<386, 388, 2, 1>>, <<390, 390, 1, 206>>,
      <<391, 391, 1, 1>>, <<393, 394, 1, 205>>, <<395, 395, 1, 1>>, <<398, 398, 1, 79>>,
      <<399, 399, 1, 202>>, <<400, 400, 1, 203>>, <<401, 401, 1, 1>>, <<403, 403, 1, 205>>,
      <<404, 404, 1, 207>>, <<406, 406, 1, 211>>, <<407, 407, 1, 209>>, <<408, 408, 1, 1>>,
      <<412, 412, 1, 211>>, <<413, 413, 1, 213>>, <<415, 415, 1, 214>>, <<416, 420, 2, 1>>,
      <<422, 422, 1, 218>>, <<423, 423, 1, 1>>, <<425, 425, 1, 218>>, <<428, 428, 1, 1>>,
      <<430, 430, 1, 218>>, <<431, 431, 1, 1>>, <<433, 434, 1, 217>>, <<435, 437, 2, 1>>,
      <<439, 439, 1, 219>>, <<440, 440, 1, 1>>, <<444, 444, 1, 1>>, <<452, 452, 1, 2>>,
      <<453, 453, 1, 1>>, <<455, 455, 1, 2>>, <<456, 456, 1, 1>>, <<458, 458, 1, 2>>,
      <<459, 475, 2, 1>>, <<478, 494, 2, 1>>, <<497, 497, 1, 2>>, <<498, 500, 2, 1>>,
      <<502, 502, 1, -97>>, <<503, 503, 1, -56>>, <<504, 542, 2, 1>>, <<544, 544, 1, -130>>,
      <<546, 562, 2, 1>>, <<570, 570, 1, 10795>>, <<571, 571, 1, 1>>, <<573, 573, 1, -163>>,
      <<574, 574, 1, 10792>>, <<577, 577, 1, 1>>, <<579, 579, 1, -195>>, <<580, 580, 1, 69>>,
      <<581, 581, 1, 71>>, <<582, 590, 2, 1>>, <<880, 882, 2, 1>>, <<886, 886, 1, 1>>,
      <<895, 895, 1, 116>>, <<902, 902, 1, 38>>, <<904, 906, 1, 37>>, <<908, 908, 1, 64>>,
      <<910, 911, 1, 63>>, <<913, 929, 1, 32>>, <<931, 939, 1, 32>>, <<975, 975, 1, 8>>,
      <<984, 1006, 2, 1>>, <<1012, 1012, 1, -60>>, <<1015, 1015, 1, 1>>, <<1017, 1017, 1, -7>>,
      <<1018, 1018, 1, 1>>, <<1021, 1023, 1, -130>>, <<1024, 1039, 1, 80>>, <<1040, 1071, 1, 32>>,
      <<1120, 1152, 2, 1>>, <<1162, 1214, 2, 1>>, <<1216, 1216, 1, 15>>, <<1217, 1229, 2, 1>>,
      <<1232, 1326, 2, 1>>, <<1329, 1366, 1, 48>>, <<4256, 4293, 1, 7264>>, <<4295, 4295, 1, 7264>>,
      <<4301, 4301, 1, 7264>>, <<5024, 5103, 1, 38864>>, <<5104, 5109, 1, 8>>, <<7305, 7305, 1, 1>>,
      <<7312, 7354, 1, -3008>>, <<7357, 7359, 1, -3008>>, <<7680, 7828, 2, 1>>, <<7838, 7838, 1, -7615>>,
      <<7840, 7934, 2, 1>>, <<7944, 7951, 1, -8>>, <<7960, 7965, 1, -8>>, <<7976, 7983, 1, -8>>,
      <<7992, 7999, 1, -8>>, <<8008, 8013, 1, -8>>, <<8025, 8031, 2, -8>>, <<8040, 8047, 1, -8>>,
      <<8072, 8079, 1, -8>>, <<8088, 8095, 1, -8>>, <<8104, 8111, 1, -8>>, <<8120, 8121, 1, -8>>,
      <<8122, 8123, 1, -74>>, <<8124, 8124, 1, -9>>, <<8136, 8139, 1, -86>>, <<8140, 8140, 1, -9>>,
      <<8152, 8153, 1, -8>>, <<8154, 8155, 1, -100>>, <<8168, 8169, 1, -8>>, <<8170, 8171, 1, -112>>,
      <<8172, 8172, 1, -7>>, <<8184, 8185, 1, -128>>, <<8186, 8187, 1, -126>>, <<8188, 8188, 1, -9>>,
      <<8486, 8486, 1, -7517>>, <<8490, 8490, 1, -8383>>, <<8491, 8491, 1, -8262>>, <<8498, 8498, 1, 28>>,
      <<8544, 8559, 1, 16>>, <<8579, 8579, 1, 1>>, <<9398, 9423, 1, 26>>, <<11264, 11311, 1, 48>>,
      <<11360, 11360, 1, 1>>, <<11362, 11362, 1, -10743>>, <<11363, 11363, 1, -3814>>, <<11364, 11364, 1, -10727>>,
      <<11367, 11371, 2, 1>>, <<11373, 11373, 1, -10780>>, <<11374, 11374, 1, -10749>>, <<11375, 11375, 1, -10783>>,
      <<11376, 11376, 1, -10782>>, <<11378, 11378, 1, 1>>, <<11381, 11381, 1, 1>>, <<11390, 11391, 1, -10815>>,
      <<11392, 11490, 2, 1>>, <<11499, 11501, 2, 1>>, <<11506, 11506, 1, 1>>, <<42560, 42604, 2, 1>>,
      <<42624, 42650, 2, 1>>, <<42786, 42798, 2, 1>>, <<42802, 42862, 2, 1>>, <<42873, 42875, 2, 1>>,
      <<42877, 42877, 1, -35332>>, <<42878, 42886, 2, 1>>, <<42891, 42891, 1, 1>>, <<42893, 42893, 1, -42280>>,
      <<42896, 42898, 2, 1>>, <<42902, 42920, 2, 1>>, <<42922, 42922, 1, -42308>>, <<42923, 42923, 1, -42319>>,
      <<42924, 42924, 1, -42315>>, <<42925, 42925, 1, -42305>>, <<42926, 42926, 1, -42308>>, <<42928, 42928, 1, -42258>>,
      <<42929, 42929, 1, -42282>>, <<42930, 42930, 1, -42261>>, <<42931, 42931, 1, 928>>, <<42932, 42946, 2, 1>>,
      <<42948, 42948, 1, -48>>, <<42949, 42949, 1, -42307>>, <<42950, 42950, 1, -35384>>, <<42951, 42953, 2, 1>>,
      <<42955, 42955, 1, -42343>>, <<42956, 42970, 2, 1>>, <<42972, 42972, 1, -42561>>, <<42997, 42997, 1, 1>>,
      <<65313, 65338, 1, 32>>, <<66560, 66599, 1, 40>>, <<66736, 66771, 1, 40>>, <<66928, 66938, 1, 39>>,
      <<66940, 66954, 1, 39>>, <<66956, 66962, 1, 39>>, <<66964, 66965, 1, 39>>, <<68736, 68786, 1, 64>>,
      <<68944, 68965, 1, 32>>, <<71840, 71871, 1, 32>>, <<93760, 93791, 1, 32>>, <<93856, 93880, 1, 27>>,
      <<125184, 125217, 1, 34>>>>

\* The code points that are Cased and not Case_Ignorable, and the code
\* points that are Case_Ignorable (DerivedCoreProperties.txt, as of Unicode
\* 17.0): <<first, last>>.
CasedRanges ==
    <<<<65, 90>>, <<97, 122>>, <<170, 170>>, <<181, 181>>, <<186, 186>>, <<192, 214>>,
      <<216, 246>>, <<248, 442>>, <<444, 447>>, <<452, 659>>, <<662, 687>>, <<880, 883>>,
      <<886, 887>>, <<891, 893>>, <<895, 895>>, <<902, 902>>, <<904, 906>>, <<908, 908>>,
      <<910, 929>>, <<931, 1013>>, <<1015, 1153>>, <<1162, 1327>>, <<1329, 1366>>, <<1376, 1416>>,
      <<4256, 4293>>, <<4295, 4295>>, <<4301, 4301>>, <<4304, 4346>>, <<4349, 4351>>, <<5024, 5109>>,
      <<5112, 5117>>, <<7296, 7306>>, <<7312, 7354>>, <<7357, 7359>>, <<7424, 7467>>, <<7531, 7543>>,
      <<7545, 7578>>, <<7680, 7957>>, <<7960, 7965>>, <<7968, 8005>>, <<8008, 8013>>, <<8016, 8023>>,
      <<8025, 8025>>, <<8027, 8027>>, <<8029, 8029>>, <<8031, 8061>>, <<8064, 8116>>, <<8118, 8124>>,
      <<8126, 8126>>, <<8130, 8132>>, <<8134, 8140>>, <<8144, 8147>>, <<8150, 8155>>, <<8160, 8172>>,
      <<8178, 8180>>, <<8182, 8188>>, <<8450, 8450>>, <<8455, 8455>>, <<8458, 8467>>, <<8469, 8469>>,
      <<8473, 8477>>, <<8484, 8484>>, <<8486, 8486>>, <<8488, 8488>>, <<8490, 8493>>, <<8495, 8500>>,
      <<8505, 8505>>, <<8508, 8511>>, <<8517, 8521>>, <<8526, 8526>>, <<8544, 8575>>, <<8579, 8580>>,
      <<9398, 9449>>, <<11264, 11387>>, <<11390, 11492>>, <<11499, 11502>>, <<11506, 11507>>, <<11520, 11557>>,
      <<11559, 11559>>, <<11565, 11565>>, <<42560, 42605>>, <<42624, 42651>>, <<42786, 42863>>, <<42865, 42887>>,
      <<42891, 42894>>, <<42896, 42972>>, <<42997, 42998>>, <<43002, 43002>>, <<43824, 43866>>, <<43872, 43880>>,
      <<43888, 43967>>, <<64256, 64262>>, <<64275, 64279>>, <<65313, 65338>>, <<65345, 65370>>, <<66560, 66639>>,
      <<66736, 66771>>, <<66776, 66811>>, <<66928, 66938>>, <<66940, 66954>>, <<66956, 66962>>, <<66964, 66965>>,
      <<66967, 66977>>, <<66979, 66993>>, <<66995, 67001>>, <<67003, 67004>>, <<68736, 68786>>, <<68800, 68850>>,
      <<68944, 68965>>, <<68976, 68997>>, <<71840, 71903>>, <<93760, 93823>>, <<93856, 93880>>, <<93883, 93907>>,
      <<119808, 119892>>, <<119894, 119964>>, <<119966, 119967>>, <<119970, 119970>>, <<119973, 119974>>, <<119977, 119980>>,
      <<119982, 119993>>, <<119995, 119995>>, <<119997, 120003>>, <<120005, 120069>>, <<120071, 120074>>, <<120077, 120084>>,
      <<120086, 120092>>, <<120094, 120121>>, <<120123, 120126>>, <<120128, 120132>>, <<120134, 120134>>, <<120138, 120144>>,
      <<120146, 120485>>, <<120488, 120512>>, <<120514, 120538>>, <<120540, 120570>>, <<120572, 120596>>, <<120598, 120628>>,
      <<120630, 120654>>, <<120656, 120686>>, <<120688, 120712>>, <<120714, 120744>>, <<120746, 120770>>, <<120772, 120779>>,
      <<122624, 122633>>, <<122635, 122654>>, <<122661, 122666>>, <<125184, 125251>>, <<127280, 127305>>, <<127312, 127337>>,
      <<127344, 127369>>>>

CaseIgnorableRanges ==
    <<<<39, 39>>, <<46, 46>>, <<58, 58>>, <<94, 94>>, <<96, 96>>, <<168, 168>>,
      <<173, 173>>, <<175, 175>>, <<180, 180>>, <<183, 184>>, <<688, 879>>, <<884, 885>>,
      <<890, 890>>, <<900, 901>>, <<903, 903>>, <<1155, 1161>>, <<1369, 1369>>, <<1375, 1375>>,
      <<1425, 1469>>, <<1471, 1471>>, <<1473, 1474>>, <<1476, 1477>>, <<1479, 1479>>, <<1524, 1524>>,
      <<1536, 1541>>, <<1552, 1562>>, <<1564, 1564>>, <<1600, 1600>>, <<1611, 1631>>, <<1648, 1648>>,
      <<1750, 1757>>, <<1759, 1768>>, <<1770, 1773>>, <<1807, 1807>>, <<1809, 1809>>, <<1840, 1866>>,
      <<1958, 1968>>, <<2027, 2037>>, <<2042, 2042>>, <<2045, 2045>>, <<2070, 2093>>, <<2137, 2139>>,
      <<2184, 2184>>, <<2192, 2193>>, <<2199, 2207>>, <<2249, 2306>>, <<2362, 2362>>, <<2364, 2364>>,
      <<2369, 2376>>, <<2381, 2381>>, <<2385, 2391>>, <<2402, 2403>>, <<2417, 2417>>, <<2433, 2433>>,
      <<2492, 2492>>, <<2497, 2500>>, <<2509, 2509>>, <<2530, 2531>>, <<2558, 2558>>, <<2561, 2562>>,
      <<2620, 2620>>, <<2625, 2626>>, <<2631, 2632>>, <<2635, 2637>>, <<2641, 2641>>, <<2672, 2673>>,
      <<2677, 2677>>, <<2689, 2690>>, <<2748, 2748>>, <<2753, 2757>>, <<2759, 2760>>, <<2765, 2765>>,
      <<2786, 2787>>, <<2810, 2815>>, <<2817, 2817>>, <<2876, 2876>>, <<2879, 2879>>, <<2881, 2884>>,
      <<2893, 2893>>, <<2901, 2902>>, <<2914, 2915>>, <<2946, 2946>>, <<3008, 3008>>, <<3021, 3021>>,
      <<3072, 3072>>, <<3076, 3076>>, <<3132, 3132>>, <<3134, 3136>>, <<3142, 3144>>, <<3146, 3149>>,
      <<3157, 3158>>, <<3170, 3171>>, <<3201, 3201>>, <<3260, 3260>>, <<3263, 3263>>, <<3270, 3270>>,
      <<3276, 3277>>, <<3298, 3299>>, <<3328, 3329>>, <<3387, 3388>>, <<3393, 3396>>, <<3405, 3405>>,
      <<3426, 3427>>, <<3457, 3457>>, <<3530, 3530>>, <<3538, 3540>>, <<3542, 3542>>, <<3633, 3633>>,
      <<3636, 3642>>, <<3654, 3662>>, <<3761, 3761>>, <<3764, 3772>>, <<3782, 3782>>, <<3784, 3790>>,
      <<3864, 3865>>, <<3893, 3893>>, <<3895, 3895>>, <<3897, 3897>>, <<3953, 3966>>, <<3968, 3972>>,
      <<3974, 3975>>, <<3981, 3991>>, <<3993, 4028>>, <<4038, 4038>>, <<4141, 4144>>, <<4146, 4151>>,
      <<4153, 4154>>, <<4157, 4158>>, <<4184, 4185>>, <<4190, 4192>>, <<4209, 4212>>, <<4226, 4226>>,
      <<4229, 4230>>, <<4237, 4237>>, <<4253, 4253>>, <<4348, 4348>>, <<4957, 4959>>, <<5906, 5908>>,
      <<5938, 5939>>, <<5970, 5971>>, <<6002, 6003>>, <<6068, 6069>>, <<6071, 6077>>, <<6086, 6086>>,
      <<6089, 6099>>, <<6103, 6103>>, <<6109, 6109>>, <<6155, 6159>>, <<6211, 6211>>, <<6277, 6278>>,
      <<6313, 6313>>, <<6432, 6434>>, <<6439, 6440>>, <<6450, 6450>>, <<6457, 6459>>, <<6679, 6680>>,
      <<6683, 6683>>, <<6742, 6742>>, <<6744, 6750>>, <<6752, 6752>>, <<6754, 6754>>, <<6757, 6764>>,
      <<6771, 6780>>, <<6783, 6783>>, <<6823, 6823>>, <<6832, 6877>>, <<6880, 6891>>, <<6912, 6915>>,
      <<6964, 6964>>, <<6966, 6970>>, <<6972, 6972>>, <<6978, 6978>>, <<7019, 7027>>, <<7040, 7041>>,
      <<7074, 7077>>, <<7080, 7081>>, <<7083, 7085>>, <<7142, 7142>>, <<7144, 7145>>, <<7149, 7149>>,
      <<7151, 7153>>, <<7212, 7219>>, <<7222, 7223>>, <<7288, 7293>>, <<7376, 7378>>, <<7380, 7392>>,
      <<7394, 7400>>, <<7405, 7405>>, <<7412, 7412>>, <<7416, 7417>>, <<7468, 7530>>, <<7544, 7544>>,
      <<7579, 7679>>, <<8125, 8125>>, <<8127, 8129>>, <<8141, 8143>>, <<8157, 8159>>, <<8173, 8175>>,
      <<8189, 8190>>, <<8203, 8207>>, <<8216, 8217>>, <<8228, 8228>>, <<8231, 8231>>, <<8234, 8238>>,
      <<8288, 8292>>, <<8294, 8303>>, <<8305, 8305>>, <<8319, 8319>>, <<8336, 8348>>, <<8400, 8432>>,
      <<11388, 11389>>, <<11503, 11505>>, <<11631, 11631>>, <<11647, 11647>>, <<11744, 11775>>, <<11823, 11823>>,
      <<12293, 12293>>, <<12330, 12333>>, <<12337, 12341>>, <<12347, 12347>>, <<12441, 12446>>, <<12540, 12542>>,
      <<40981, 40981>>, <<42232, 42237>>, <<42508, 42508>>, <<42607, 42610>>, <<42612, 42621>>, <<42623, 42623>>,
      <<42652, 42655>>, <<42736, 42737>>, <<42752, 42785>>, <<42864, 42864>>, <<42888, 42890>>, <<42993, 42996>>,
      <<43000, 43001>>, <<43010, 43010>>, <<43014, 43014>>, <<43019, 43019>>, <<43045, 43046>>, <<43052, 43052>>,
      <<43204, 43205>>, <<43232, 43249>>, <<43263, 43263>>, <<43302, 43309>>, <<43335, 43345>>, <<43392, 43394>>,
      <<43443, 43443>>, <<43446, 43449>>, <<43452, 43453>>, <<43471, 43471>>, <<43493, 43494>>, <<43561, 43566>>,
      <<43569, 43570>>, <<43573, 43574>>, <<43587, 43587>>, <<43596, 43596>>, <<43632, 43632>>, <<43644, 43644>>,
      <<43696, 43696>>, <<43698, 43700>>, <<43703, 43704>>, <<43710, 43711>>, <<43713, 43713>>, <<43741, 43741>>,
      <<43756, 43757>>, <<43763, 43764>>, <<43766, 43766>>, <<43867, 43871>>, <<43881, 43883>>, <<44005, 44005>>,
      <<44008, 44008>>, <<44013, 44013>>, <<64286, 64286>>, <<64434, 64450>>, <<65024, 65039>>, <<65043, 65043>>,
      <<65056, 65071>>, <<65106, 65106>>, <<65109, 65109>>, <<65279, 65279>>, <<65287, 65287>>, <<65294, 65294>>,
      <<65306, 65306>>, <<65342, 65342>>, <<65344, 65344>>, <<65392, 65392>>, <<65438, 65439>>, <<65507, 65507>>,
      <<65529, 65531>>, <<66045, 66045>>, <<66272, 66272>>, <<66422, 66426>>, <<67456, 67461>>, <<67463, 67504>>,
      <<67506, 67514>>, <<68097, 68099>>, <<68101, 68102>>, <<68108, 68111>>, <<68152, 68154>>, <<68159, 68159>>,
      <<68325, 68326>>, <<68900, 68903>>, <<68942, 68942>>, <<68969, 68973>>, <<68975, 68975>>, <<69291, 69292>>,
      <<69317, 69317>>, <<69370, 69375>>, <<69446, 69456>>, <<69506, 69509>>, <<69633, 69633>>, <<69688, 69702>>,
      <<69744, 69744>>, <<69747, 69748>>, <<69759, 69761>>, <<69811, 69814>>, <<69817, 69818>>, <<69821, 69821>>,
      <<69826, 69826>>, <<69837, 69837>>, <<69888, 69890>>, <<69927, 69931>>, <<69933, 69940>>, <<70003, 70003>>,
      <<70016, 70017>>, <<70070, 70078>>, <<70089, 70092>>, <<70095, 70095>>, <<70191, 70193>>, <<70196, 70196>>,
      <<70198, 70199>>, <<70206, 70206>>, <<70209, 70209>>, <<70367, 70367>>, <<70371, 70378>>, <<70400, 70401>>,
      <<70459, 70460>>, <<70464, 70464>>, <<70502, 70508>>, <<70512, 70516>>, <<70587, 70592>>, <<70606, 70606>>,
      <<70608, 70608>>, <<70610, 70610>>, <<70625, 70626>>, <<70712, 70719>>, <<70722, 70724>>, <<70726, 70726>>,
      <<70750, 70750>>, <<70835, 70840>>, <<70842, 70842>>, <<70847, 70848>>, <<70850, 70851>>, <<71090, 71093>>,
      <<71100, 71101>>, <<71103, 71104>>, <<71132, 71133>>, <<71219, 71226>>, <<71229, 71229>>, <<71231, 71232>>,
      <<71339, 71339>>, <<71341, 71341>>, <<71344, 71349>>, <<71351, 71351>>, <<71453, 71453>>, <<71455, 71455>>,
      <<71458, 71461>>, <<71463, 71467>>, <<71727, 71735>>, <<71737, 71738>>, <<71995, 71996>>, <<71998, 71998>>,
      <<72003, 72003>>, <<72148, 72151>>, <<72154, 72155>>, <<72160, 72160>>, <<72193, 72202>>, <<72243, 72248>>,
      <<72251, 72254>>, <<72263, 72263>>, <<72273, 72278>>, <<72281, 72283>>, <<72330, 72342>>, <<72344, 72345>>,
      <<72544, 72544>>, <<72546, 72548>>, <<72550, 72550>>, <<72752, 72758>>, <<72760, 72765>>, <<72767, 72767>>,
      <<72850, 72871>>, <<72874, 72880>>, <<72882, 72883>>, <<72885, 72886>>, <<73009, 73014>>, <<73018, 73018>>,
      <<73020, 73021>>, <<73023, 73029>>, <<73031, 73031>>, <<73104, 73105>>, <<73109, 73109>>, <<73111, 73111>>,
      <<73177, 73177>>, <<73459, 73460>>, <<73472, 73473>>, <<73526, 73530>>, <<73536, 73536>>, <<73538, 73538>>,
      <<73562, 73562>>, <<78896, 78912>>, <<78919, 78933>>, <<90398, 90409>>, <<90413, 90415>>, <<92912, 92916>>,
      <<92976, 92982>>, <<92992, 92995>>, <<93504, 93506>>, <<93547, 93548>>, <<94031, 94031>>, <<94095, 94111>>,
      <<94176, 94177>>, <<94179, 94180>>, <<94194, 94195>>, <<110576, 110579>>, <<110581, 110587>>, <<110589, 110590>>,
      <<113821, 113822>>, <<113824, 113827>>, <<118528, 118573>>, <<118576, 118598>>, <<119143, 119145>>, <<119155, 119170>>,
      <<119173, 119179>>, <<119210, 119213>>, <<119362, 119364>>, <<121344, 121398>>, <<121403, 121452>>, <<121461, 121461>>,
      <<121476, 121476>>, <<121499, 121503>>, <<121505, 121519>>, <<122880, 122886>>, <<122888, 122904>>, <<122907, 122913>>,
      <<122915, 122916>>, <<122918, 122922>>, <<122928, 122989>>, <<123023, 123023>>, <<123184, 123197>>, <<123566, 123566>>,
      <<123628, 123631>>, <<124139, 124143>>, <<124398, 124399>>, <<124643, 124643>>, <<124646, 124646>>, <<124654, 124655>>,
      <<124661, 124661>>, <<124671, 124671>>, <<125136, 125142>>, <<125252, 125259>>, <<127995, 127999>>, <<917505, 917505>>,
      <<917536, 917631>>, <<917760, 917999>>>>

InRanges(c, ranges) ==
    \E k \in 1..Len(ranges) : ranges[k][1] <= c /\ c <= ranges[k][2]

Cased(c) == InRanges(c, CasedRanges)
CaseIgnorable(c) == InRanges(c, CaseIgnorableRanges)

\* The lower case of a code point that lower-cases to one code point.
LowerChar(c) ==
    IF c < 128 THEN (IF 65 <= c /\ c <= 90 THEN c + 32 ELSE c)
    ELSE LET hit == {k \in 1..Len(LowerCaseRanges) :
                        LET r == LowerCaseRanges[k]
                        IN  r[1] <= c /\ c <= r[2] /\ (c - r[1]) % r[3] = 0}
         IN  IF hit = {} THEN c
             ELSE c + LowerCaseRanges[CHOOSE k \in hit : TRUE][4]

\* Surrogates: a high one followed by a low one is one code point.
IsHighSurrogate(u) == 55296 <= u /\ u <= 56319
IsLowSurrogate(u) == 56320 <= u /\ u <= 57343
IsTrail(s, i) == i > 1 /\ IsLowSurrogate(s[i]) /\ IsHighSurrogate(s[i - 1])

\* The code point that starts at code unit i, and the code units of a code
\* point.
CodePointAt(s, i) ==
    IF IsHighSurrogate(s[i]) /\ i < Len(s) /\ IsLowSurrogate(s[i + 1])
    THEN 65536 + (s[i] - 55296) * 1024 + (s[i + 1] - 56320)
    ELSE s[i]

CodeUnits(c) ==
    IF c < 65536 THEN <<c>>
    ELSE <<55296 + ((c - 65536) \div 1024), 56320 + ((c - 65536) % 1024)>>

\* Final_Sigma of SpecialCasing.txt: the capital sigma at i comes after a
\* cased letter and is not followed by one, case-ignorable characters
\* being skipped on either side.
FinalSigma(s, i) ==
    LET solid(j) == ~IsTrail(s, j) /\ ~CaseIgnorable(CodePointAt(s, j))
        before == {j \in 1..(i - 1) : solid(j)}
        after == {j \in (i + 1)..Len(s) : solid(j)}
        last == CHOOSE j \in before : \A k \in before : k <= j
        next == CHOOSE j \in after : \A k \in after : j <= k
    IN  /\ before # {}
        /\ Cased(CodePointAt(s, last))
        /\ ~(after # {} /\ Cased(CodePointAt(s, next)))

\* The code units the character at code unit i lower-cases to: U+0130 to i
\* and the combining dot above, a final capital sigma to the final small
\* sigma, any other by its simple mapping; nothing for the second half of
\* a surrogate pair.
LowerUnits(s, i) ==
    IF IsTrail(s, i) THEN <<>>
    ELSE LET c == CodePointAt(s, i)
         IN  IF c = 304 THEN <<105, 775>>
             ELSE IF c = 931 /\ FinalSigma(s, i) THEN <<962>>
             ELSE CodeUnits(LowerChar(c))

\* A comparison that keeps the case of the message.
toLowerCase_KeepsCase(s) == s

\* String.prototype.toLowerCase(): the default lower-casing of Unicode.
toLowerCase(s) == Flatten([i \in 1..Len(s) |-> LowerUnits(s, i)])

includes(s, sub) ==
    \E i \in 0..(Len(s) - Len(sub)) : SubSeq(s, i + 1, i + Len(sub)) = sub

ComplexWord == Chars(<<"c","o","m","p","l","e","x">>)

\* One entry of an errors list: { message?: string }.
ErrMsg(m) == [hasMessage |-> TRUE, message |-> m]
ErrNoMsg == [hasMessage |-> FALSE, message |-> <<>>]

\* (e?.message || '')
MessageOr(e) == IF e.hasMessage THEN e.message ELSE <<>>

hasComplexityMessageFromErrors(errors) ==
    \E i \in 1..Len(errors) :
        includes(toLowerCase(MessageOr(errors[i])), ComplexWord)

\* The value handed to isComplexityError: an errors array or a caught error.
Arr(errors) == [isArray |-> TRUE, errors |-> errors]
Thrown(isErr, msg, hasNet, status, hasRes, resErrors) ==
    [isArray |-> FALSE, isError |-> isErr, message |-> msg,
     hasNetworkError |-> hasNet, statusCode |-> status,
     hasResultErrors |-> hasRes, resultErrors |-> resErrors]

isComplexityError(x) ==
    IF x.isArray THEN hasComplexityMessageFromErrors(x.errors)
    ELSE \/ /\ x.hasNetworkError
            /\ x.hasResultErrors
            /\ hasComplexityMessageFromErrors(x.resultErrors)
         \/ /\ x.isError
            /\ includes(toLowerCase(x.message), ComplexWord)

\* Messages the upstream sends in the model.
MsgComplex == Chars(<<"T","o","o"," ","C","O","M","P","L","E","X">>)
MsgQueryComplexity == Chars(<<"c","o","m","p","l","e","x","i","t","y">>)
MsgOther == Chars(<<"N","o","t"," ","f","o","u","n","d">>)
MsgNetwork == Chars(<<"F","a","i","l","e","d">>)
MsgMixedCase == Chars(<<"C","o","m","P","l","E","x","!">>)
MsgNearMiss == Chars(<<"c","o","m","p","l","e"," ","x">>)
MsgEmpty == <<>>
\* COMPLE and U+212A KELVIN SIGN, which lower-cases to k.
MsgKelvin == Chars(<<"C","O","M","P","L","E">>) \o <<8490>>

ErrsNone == <<>>
ErrsOther == <<ErrMsg(MsgOther)>>
ErrsComplex == <<ErrMsg(MsgOther), ErrMsg(MsgComplex)>>
ErrsNoMessage == <<ErrNoMsg>>

\* Errors the transport throws: a plain network failure, an HTTP error whose
\* payload carries GraphQL errors (complexity or not), and an error whose
\* own message names complexity.
ThrowNetwork == Thrown(TRUE, MsgNetwork, TRUE, 0, FALSE, <<>>)
ThrowHttpOther == Thrown(TRUE, MsgNetwork, TRUE, 500, TRUE, ErrsOther)
ThrowHttpComplex == Thrown(TRUE, MsgNetwork, TRUE, 400, TRUE, ErrsComplex)
ThrowMsgComplex == Thrown(TRUE, MsgQueryComplexity, FALSE, 0, FALSE, <<>>)

ThrownErrors == {ThrowNetwork, ThrowHttpOther, ThrowHttpComplex, ThrowMsgComplex}

\* ------------------------------------------------------ upstream data

\* An issue node of the upstream: cycle c (the team's id), page p (0 is the
\* first page, k the page answering the k-th follow-up request), position i,
\* and whether the query that returned it selected labels.
Node(c, p, i, withLabels) == [c |-> c, p |-> p, i |-> i, labels |-> withLabels]

NodeStateType(n) ==
    IF n.i = 1 THEN "started" ELSE IF n.i = 2 THEN "completed" ELSE "backlog"

\* estimate?: number, absent on every third node.
NodeEstimate(n) ==
    IF (n.p + n.i) % 3 = 0 THEN [has |-> FALSE, v |-> 0]
    ELSE [has |-> TRUE, v |-> (n.p + n.i) % 3]

LabelBug == [id |-> "L1", name |-> Chars(<<"b","u","g">>)]
LabelApi == [id |-> "L2", name |-> Chars(<<"a","p","i">>)]

NodeLabels(n) ==
    IF ~n.labels THEN <<>>
    ELSE IF n.i = 1 THEN <<LabelBug>>
    ELSE IF n.i = 2 THEN <<LabelBug, LabelApi>>
    ELSE <<>>

\* An optional value: absent, or present with its value.
Absent == [has |-> FALSE, v |-> 0]
Some(v) == [has |-> TRUE, v |-> v]

\* createdAt, startedAt?, completedAt? of a node, as milliseconds: a started
\* issue of the first page started the moment it was created; a completed
\* issue of an odd page never recorded its start.
NodeCreatedAt(n) == n.p + n.i
NodeStartedAt(n) ==
    IF NodeStateType(n) = "started" THEN Some(NodeCreatedAt(n) + n.p)
    ELSE IF NodeStateType(n) = "completed" /\ n.p % 2 = 0
    THEN Some(NodeCreatedAt(n) + 1)
    ELSE Absent
NodeCompletedAt(n) ==
    IF NodeStateType(n) = "completed" THEN Some(NodeCreatedAt(n) + 3) ELSE Absent

\* IssuesPage: { nodes, pageInfo?: { hasNextPage, endCursor? } }, or no page.
Page(nodes, hasPI, hasNextPage, endCursor) ==
    [present |-> TRUE, nodes |-> nodes, hasPageInfo |-> hasPI,
     hasNextPage |-> hasNextPage, endCursor |-> endCursor]
NoPage ==
    [present |-> FALSE, nodes |-> <<>>, hasPageInfo |-> FALSE,
     hasNextPage |-> FALSE, endCursor |-> Undefined]

PageNodes(c, p, n, withLabels) == [i \in 1..n |-> Node(c, p, i, withLabels)]

\* The pages the upstream may return for page p of cycle c: up to maxLen
\* nodes; more pages announced with any cursor of `cursors` or none; the last
\* page; a page without pageInfo.
Pages(c, p, maxLen, cursors, withLabels) ==
    UNION {
        {Page(PageNodes(c, p, n, withLabels), TRUE, TRUE, cur) :
            cur \in cursors \cup {Undefined}}
        \cup {Page(PageNodes(c, p, n, withLabels), TRUE, FALSE, Undefined),
              Page(PageNodes(c, p, n, withLabels), FALSE, FALSE, Undefined)}
        : n \in 0..maxLen }

\* ------------------------------------------------------------ metrics

\* A comparison that takes the type in any case.
isStartedState_AnyCase(state) == state.type \in {"started", "Started", "STARTED"}

isStartedState(state) == state.type = "started"
isCompletedState(state) == state.type = "completed"

\* Estimation taken as enabled whenever the type is set.
teamUsesEstimation_AnyType(team) == team.issueEstimationType # Undefined

\* team.issueEstimationType !== undefined && ... !== 'notUsed': null passes
\* both tests.
teamUsesEstimation(team) ==
    team.issueEstimationType # Undefined /\ team.issueEstimationType # "notUsed"

\* An issue without an estimate counted as one point.
EstimateOr0_AbsentIsOne(issue) == IF issue.estimate.has THEN issue.estimate.v ELSE 1

\* (issue.estimate || 0)
EstimateOr0(issue) == IF issue.estimate.has THEN issue.estimate.v ELSE 0

\* s[lo] + ... + s[hi], summed by halves.
RECURSIVE SumRange(_, _, _)
SumRange(s, lo, hi) ==
    IF lo > hi THEN 0
    ELSE IF lo = hi THEN s[lo]
    ELSE LET mid == (lo + hi) \div 2
         IN  SumRange(s, lo, mid) + SumRange(s, mid + 1, hi)

SumSeq(s) == SumRange(s, 1, Len(s))


\* IEEE 754 double arithmetic, as far as Math.round((part / scope) * 100)
\* needs it. A positive double is an integer of at most 53 significant bits
\* times a power of two. The integer is kept as the sequence of its bits,
\* least significant first, and computed in limbs of 14 bits (three low
\* limbs and a high limb of 11 bits make 53), which holds for scope < 2^17.
SignificandBits == 53
LimbBits == 14

TwoTo(n) == 2 ^ n

\* Zero bits after the point before the first one bit of r / b, 0 < r < b.
RECURSIVE LeadingZeros(_, _)
LeadingZeros(r, b) == IF 2 * r >= b THEN 0 ELSE 1 + LeadingZeros(2 * r, b)

\* The w low bits of n, least significant first.
Bits(n, w) == [i \in 1..w |-> (n \div TwoTo(i - 1)) % 2]

\* Number of bits of n > 0.
BitLength(n) == CHOOSE w \in 1..31 : TwoTo(w - 1) <= n /\ (w = 31 \/ n < TwoTo(w))

\* The bits of the number with these limbs, lowest limb first; the high limb
\* is positive and has as many bits as it needs.
LimbsToBits(l) ==
    Bits(l[1], LimbBits) \o Bits(l[2], LimbBits) \o Bits(l[3], LimbBits)
    \o Bits(l[4], BitLength(l[4]))

\* a + 1 on a bit sequence.
Inc(a) ==
    LET zeros == {i \in 1..Len(a) : a[i] = 0}
        j == IF zeros = {} THEN Len(a) + 1
             ELSE CHOOSE i \in zeros : \A k \in zeros : i <= k
    IN  [i \in 1..(IF j > Len(a) THEN j ELSE Len(a)) |->
            IF i < j THEN 0 ELSE IF i = j THEN 1 ELSE a[i]]

\* The double part / scope for 0 < part < scope: limbs * 2^(-fraction).
\* Long division gives the first 53 significant bits of the quotient, the
\* remainder rounds them to nearest, ties to even.
DoubleQuotient(part, scope) ==
    LET z == LeadingZeros(part, scope)
        base == TwoTo(LimbBits)
        top == TwoTo(SignificandBits - 3 * LimbBits)
        r0 == part * TwoTo(z)
        d4 == (r0 * top) \div scope
        r4 == (r0 * top) % scope
        d3 == (r4 * base) \div scope
        r3 == (r4 * base) % scope
        d2 == (r3 * base) \div scope
        r2 == (r3 * base) % scope
        d1 == (r2 * base) \div scope
        r1 == (r2 * base) % scope
        up == IF 2 * r1 > scope \/ (2 * r1 = scope /\ d1 % 2 = 1) THEN 1 ELSE 0
        s1 == d1 + up
        s2 == d2 + s1 \div base
        s3 == d3 + s2 \div base
        s4 == d4 + s3 \div base
    IN  [limbs |-> <<s1 % base, s2 % base, s3 % base, s4>>,
         fraction |-> z + SignificandBits]

\* limbs * 100.
Times100(l) ==
    LET base == TwoTo(LimbBits)
        t1 == l[1] * 100
        t2 == l[2] * 100 + t1 \div base
        t3 == l[3] * 100 + t2 \div base
        t4 == l[4] * 100 + t3 \div base
    IN  <<t1 % base, t2 % base, t3 % base, t4>>

\* Rounding to 53 significant bits, ties to even: the kept bits and the
\* number of low bits dropped.
RoundToDouble(a) ==
    LET k == Len(a) - SignificandBits IN
    IF k <= 0 THEN [bits |-> a, dropped |-> 0]
    ELSE LET high == SubSeq(a, k + 1, Len(a))
             sticky == \E i \in 1..(k - 1) : a[i] = 1
             up == a[k] = 1 /\ (sticky \/ high[1] = 1)
         IN  [bits |-> IF up THEN Inc(high) ELSE high, dropped |-> k]

RECURSIVE BitsValue(_)
BitsValue(a) == IF a = <<>> THEN 0 ELSE Head(a) + 2 * BitsValue(Tail(a))

\* Math.round(x) of a positive double bits * 2^(-fraction): the integer
\* part, plus one when the fractional part is at least one half.
MathRound(x) ==
    BitsValue(SubSeq(x.bits, x.fraction + 1, Len(x.bits)))
    + (IF x.fraction >= 1 /\ x.fraction <= Len(x.bits) THEN x.bits[x.fraction] ELSE 0)

\* IEEE 754 double arithmetic on the numbers that are not whole: the sums of
\* estimates such as 0.1, and the percentages of such sums. A double that is
\* zero or positive is kept as bits * 2^(-fraction), bits being the
\* significand as a bit sequence, least significant first, of at most 53
\* bits, whose first and last bit are 1 (no bit at all for zero): each
\* double has one such form. Values stay within the normal range.
DoubleZero == [bits |-> <<>>, fraction |-> 0]

\* The form of bits * 2^(-fraction) without zero bits at either end.
Normal(bits, fraction) ==
    LET ones == {i \in 1..Len(bits) : bits[i] = 1} IN
    IF ones = {} THEN DoubleZero
    ELSE LET lo == CHOOSE i \in ones : \A j \in ones : i <= j
             hi == CHOOSE i \in ones : \A j \in ones : i >= j
         IN  [bits |-> SubSeq(bits, lo, hi), fraction |-> fraction - (lo - 1)]

\* The double of a whole number n >= 0.
DoubleOf(n) == IF n = 0 THEN DoubleZero ELSE Normal(Bits(n, BitLength(n)), 0)

\* a * 2^k on a bit sequence.
ShiftLeft(a, k) == [i \in 1..k |-> 0] \o a

\* The bit sequence widened to w bits.
Widen(a, w) == a \o [i \in 1..(w - Len(a)) |-> 0]

\* a + b on bit sequences: bit i of the sum takes the carry that a lower
\* bit raised (both bits 1) and every bit between has passed on (a bit 1).
AddBits(a, b) ==
    LET w == IF Len(a) > Len(b) THEN Len(a) ELSE Len(b)
        x == Widen(a, w + 1)
        y == Widen(b, w + 1)
        carry(i) == \E j \in 1..(i - 1) :
                        /\ x[j] + y[j] = 2
                        /\ \A k \in (j + 1)..(i - 1) : x[k] + y[k] >= 1
    IN  [i \in 1..(w + 1) |-> (x[i] + y[i] + (IF carry(i) THEN 1 ELSE 0)) % 2]

\* a < b on bit sequences.
LessBits(a, b) ==
    LET w == IF Len(a) > Len(b) THEN Len(a) ELSE Len(b)
        x == Widen(a, w)
        y == Widen(b, w)
    IN  \E i \in 1..w : x[i] < y[i] /\ \A j \in (i + 1)..w : x[j] = y[j]

\* The bit sequence without its zero bits at the high end.
Significant(a) ==
    LET ones == {i \in 1..Len(a) : a[i] = 1} IN
    IF ones = {} THEN <<>>
    ELSE SubSeq(a, 1, CHOOSE i \in ones : \A j \in ones : i >= j)

\* A number below 2^56 as four limbs of 14 bits, lowest first, from its
\* bits.
Limbs(a) ==
    LET w == Widen(a, 4 * LimbBits) IN
    <<BitsValue(SubSeq(w, 1, LimbBits)),
      BitsValue(SubSeq(w, LimbBits + 1, 2 * LimbBits)),
      BitsValue(SubSeq(w, 2 * LimbBits + 1, 3 * LimbBits)),
      BitsValue(SubSeq(w, 3 * LimbBits + 1, 4 * LimbBits))>>

NoLimbs == <<0, 0, 0, 0>>

\* a < b on limbs.
LimbsLess(a, b) ==
    \E i \in 1..4 : a[i] < b[i] /\ \A j \in (i + 1)..4 : a[j] = b[j]

\* 2 * a on limbs, a < 2^55.
LimbsTwice(a) ==
    LET base == TwoTo(LimbBits)
        t1 == 2 * a[1]
        t2 == 2 * a[2] + t1 \div base
        t3 == 2 * a[3] + t2 \div base
        t4 == 2 * a[4] + t3 \div base
    IN  <<t1 % base, t2 % base, t3 % base, t4>>

\* a - b on limbs, a >= b.
LimbsMinus(a, b) ==
    LET base == TwoTo(LimbBits)
        d1 == a[1] - b[1]
        d2 == a[2] - b[2] - (IF d1 < 0 THEN 1 ELSE 0)
        d3 == a[3] - b[3] - (IF d2 < 0 THEN 1 ELSE 0)
        d4 == a[4] - b[4] - (IF d3 < 0 THEN 1 ELSE 0)
    IN  <<(d1 + base) % base, (d2 + base) % base, (d3 + base) % base, d4>>

\* The next n >= 1 bits of the quotient rem / den on limbs, rem < den, and
\* the remainder they leave: long division, a bit of the quotient at each
\* step. The steps are taken by halves, the high bits first; a remainder
\* of zero leaves zero bits only.
RECURSIVE DivSteps(_, _, _)

DivJoin(high, low) == [q |-> low.q \o high.q, r |-> low.r]

DivNext(high, den, n) ==
    IF high.r = NoLimbs THEN [q |-> [i \in 1..n |-> 0] \o high.q, r |-> NoLimbs]
    ELSE DivJoin(high, DivSteps(high.r, den, n))

DivStep(twice, den) ==
    IF LimbsLess(twice, den) THEN [q |-> <<0>>, r |-> twice]
    ELSE [q |-> <<1>>, r |-> LimbsMinus(twice, den)]

DivSteps(rem, den, n) ==
    IF n = 1 THEN DivStep(LimbsTwice(rem), den)
    ELSE DivNext(DivSteps(rem, den, n \div 2), den, n - n \div 2)

\* x + y in doubles: the exact sum, rounded.
DoublePlus(x, y) ==
    LET f == IF x.fraction > y.fraction THEN x.fraction ELSE y.fraction
        sum == Significant(AddBits(ShiftLeft(x.bits, f - x.fraction),
                                   ShiftLeft(y.bits, f - y.fraction)))
        r == RoundToDouble(sum)
    IN  Normal(r.bits, f - r.dropped)

\* x <= y on doubles.
DoubleLessEq(x, y) ==
    LET f == IF x.fraction > y.fraction THEN x.fraction ELSE y.fraction
    IN  ~LessBits(ShiftLeft(y.bits, f - y.fraction),
                  ShiftLeft(x.bits, f - x.fraction))

\* x / y in doubles, x > 0 and y > 0. The significands are brought to one
\* length, so that their quotient lies between 1/2 and 2: its bit before
\* the point, its first 55 bits after the point, and a last bit that tells
\* whether the division left a remainder, rounded.
DoubleDivide(x, y) ==
    LET la == Len(x.bits)
        lb == Len(y.bits)
        num == Limbs(ShiftLeft(x.bits, IF lb > la THEN lb - la ELSE 0))
        den == Limbs(ShiftLeft(y.bits, IF la > lb THEN la - lb ELSE 0))
        first == IF LimbsLess(num, den) THEN 0 ELSE 1
        d == DivSteps(IF first = 1 THEN LimbsMinus(num, den) ELSE num,
                      den, SignificandBits + 2)
        sticky == IF d.r = NoLimbs THEN 0 ELSE 1
        r == RoundToDouble(Significant(<<sticky>> \o d.q \o <<first>>))
    IN  Normal(r.bits,
               x.fraction - y.fraction + lb - la + SignificandBits + 3 - r.dropped)

\* x * 100 in doubles, as bits and fraction: 100 = 64 + 32 + 4.
DoubleTimes100(x) ==
    LET product == Significant(AddBits(AddBits(ShiftLeft(x.bits, 6),
                                               ShiftLeft(x.bits, 5)),
                                       ShiftLeft(x.bits, 2)))
        r == RoundToDouble(product)
    IN  [bits |-> r.bits, fraction |-> x.fraction - r.dropped]

\* Math.round((part / scope) * 100) on doubles, 0 <= part <= scope, scope > 0.
DoublePercent(part, scope) ==
    IF part = DoubleZero THEN 0
    ELSE MathRound(DoubleTimes100(DoubleDivide(part, scope)))

\* An estimate (estimate?: number) that the upstream's JSON writes with
\* decimals, n / d for a power of ten d (0.1 is Decimal(1, 10)): the field
\* holds the double nearest to n / d, as JSON.parse gives it and as the
\* division of n by d in doubles gives it.
Decimal(n, d) ==
    [has |-> TRUE, double |-> DoubleDivide(DoubleOf(n), DoubleOf(d))]
IsDecimal(e) == "double" \in DOMAIN e

\* (issue.estimate || 0) as a double, of an estimate that is not negative.
EstimateDouble(issue) ==
    IF ~issue.estimate.has THEN DoubleZero
    ELSE IF IsDecimal(issue.estimate) THEN issue.estimate.double
    ELSE DoubleOf(issue.estimate.v)

\* Whether an estimate of these issues is no whole number.
Fractional(issues) ==
    \E i \in 1..Len(issues) : IsDecimal(issues[i].estimate)

\* sum + (issue.estimate || 0) in doubles, issue by issue from the left.
RECURSIVE DoubleSumFrom(_, _, _)
DoubleSumFrom(issues, i, sum) ==
    IF i > Len(issues) THEN sum
    ELSE DoubleSumFrom(issues, i + 1, DoublePlus(sum, EstimateDouble(issues[i])))

\* reduce((sum, issue) => sum + (issue.estimate || 0), 0). Whole numbers
\* add exactly in doubles, and their sum is kept as an integer; with an
\* estimate of the team that is no whole number (doubles) every addition
\* rounds, and the sum is kept as the double it is.
SumEstimates(issues, doubles) ==
    IF doubles THEN DoubleSumFrom(issues, 1, DoubleZero)
    ELSE SumSeq([i \in 1..Len(issues) |-> EstimateOr0(issues[i])])

\* Math.round((part / scope) * 100) for whole numbers 0 <= part <= scope,
\* scope > 0: the quotient is rounded to a double, the product is rounded to
\* a double, and Math.round rounds what is left.
RoundPercent(part, scope) ==
    IF part = 0 THEN 0
    ELSE IF part = scope THEN 100
    ELSE LET q == DoubleQuotient(part, scope)
             p == RoundToDouble(LimbsToBits(Times100(q.limbs)))
         IN  MathRound([bits |-> p.bits, fraction |-> q.fraction - p.dropped])

\* The filter issue => issue.estimate, which keeps negative estimates.
estimatedIssues_Truthy(issues) ==
    SelectSeq(issues, LAMBDA x : EstimateOr0(x) # 0)

\* issues.filter(issue => (issue.estimate || 0) > 0)
estimatedIssues(issues) ==
    SelectSeq(issues, LAMBDA x : IF IsDecimal(x.estimate)
                                 THEN x.estimate.double # DoubleZero
                                 ELSE EstimateOr0(x) > 0)

\* 100 as soon as the team has started or completed work.
scopePercentage_OfWork(scope, started, completed) ==
    IF started + completed > 0 THEN 100 ELSE 0

\* scope > 0 ? 100 : 0
scopePercentage(scope, started, completed) == IF scope > 0 THEN 100 ELSE 0

\* scope, started and completed are whole numbers, kept as integers, unless
\* the team estimates and an estimate of its issues is no whole number:
\* then the three are the doubles that the additions leave, and the tests
\* and percentages are taken on these.
calculateTeamMetrics(team, cycle, issues) ==
    LET usesEstimation == teamUsesEstimation(team)
        doubles == usesEstimation /\ Fractional(issues)
        scope == IF usesEstimation
                 THEN SumEstimates(estimatedIssues(issues), doubles)
                 ELSE Len(issues)
        started ==
            IF usesEstimation
            THEN SumEstimates(SelectSeq(estimatedIssues(issues),
                                        LAMBDA x : isStartedState(x.state)),
                              doubles)
            ELSE Len(SelectSeq(issues, LAMBDA x : isStartedState(x.state)))
        completed ==
            IF usesEstimation
            THEN SumEstimates(SelectSeq(estimatedIssues(issues),
                                        LAMBDA x : isCompletedState(x.state)),
                              doubles)
            ELSE Len(SelectSeq(issues, LAMBDA x : isCompletedState(x.state)))
    IN  [team |-> team.id,
         cycle |-> cycle,
         scope |-> scope,
         started |-> started,
         completed |-> completed,
         scopePercentage |->
            IF doubles THEN (IF scope # DoubleZero THEN 100 ELSE 0)
            ELSE scopePercentage(scope, started, completed),
         startedPercentage |->
            IF doubles
            THEN (IF scope # DoubleZero THEN DoublePercent(started, scope) ELSE 0)
            ELSE IF scope > 0 THEN RoundPercent(started, scope) ELSE 0,
         completedPercentage |->
            IF doubles
            THEN (IF scope # DoubleZero THEN DoublePercent(completed, scope) ELSE 0)
            ELSE IF scope > 0 THEN RoundPercent(completed, scope) ELSE 0,
         usesEstimation |-> usesEstimation,
         metricType |-> IF usesEstimation THEN "story_points" ELSE "issues"]

\* ------------------------------------------------------- label counts

\* The rank of a lower-case ASCII letter among them is that of its code.
CharRank(ch) == ch

\* a.localeCompare(b) on names of lower-case letters: -1, 0 or 1.
RECURSIVE localeCompare(_, _)
localeCompare(a, b) ==
    IF a = <<>> /\ b = <<>> THEN 0
    ELSE IF a = <<>> THEN -1
    ELSE IF b = <<>> THEN 1
    ELSE IF CharRank(Head(a)) < CharRank(Head(b)) THEN -1
    ELSE IF CharRank(Head(a)) > CharRank(Head(b)) THEN 1
    ELSE localeCompare(Tail(a), Tail(b))

\* A counter that starts at 0 with the first attachment.
LabelMapOf_CountsFromZero(labels) ==
    LET n == Len(labels)
        first == SelectSeq([i \in 1..n |-> i],
                     LAMBDA i : \A j \in 1..(i - 1) : labels[j].id # labels[i].id)
    IN  [k \in 1..Len(first) |->
            [id |-> labels[first[k]].id,
             name |-> labels[first[k]].name,
             count |-> Cardinality({j \in 1..n : labels[j].id = labels[first[k]].id}) - 1]]

\* Array.from(labelMap.values()) after the loop of
\* labelMap.set(lbl.id, {..., count: (prev?.count || 0) + 1}) over the labels
\* in this order, from an empty Map: a Map keeps the position of a key it
\* already holds, so the ids stand in the order of their first occurrence;
\* each set overwrites the name, so the name is the one of the last
\* occurrence; the count is the number of occurrences.
LabelMapOf(labels) ==
    LET n == Len(labels)
        first == SelectSeq([i \in 1..n |-> i],
                     LAMBDA i : \A j \in 1..(i - 1) : labels[j].id # labels[i].id)
        lastOf(id) == CHOOSE i \in 1..n :
                        /\ labels[i].id = id
                        /\ \A j \in (i + 1)..n : labels[j].id # id
    IN  [k \in 1..Len(first) |->
            LET id == labels[first[k]].id IN
            [id |-> id,
             name |-> labels[lastOf(id)].name,
             count |-> Cardinality({j \in 1..n : labels[j].id = id})]]

\* (a, b) => b.count - a.count || a.name.localeCompare(b.name)
LabelCompare(a, b) ==
    IF b.count - a.count # 0 THEN b.count - a.count
    ELSE localeCompare(a.name, b.name)

\* Array.prototype.sort is stable: x goes after every entry not after it.
RECURSIVE SortInsert(_, _)
SortInsert(sorted, x) ==
    IF sorted = <<>> THEN <<x>>
    ELSE IF LabelCompare(Head(sorted), x) <= 0
         THEN <<Head(sorted)>> \o SortInsert(Tail(sorted), x)
         ELSE <<x>> \o sorted

RECURSIVE SortLabels(_, _)
SortLabels(sorted, rest) ==
    IF rest = <<>> THEN sorted
    ELSE SortLabels(SortInsert(sorted, Head(rest)), Tail(rest))

LabelCountsOf(issues) ==
    SortLabels(<<>>,
        LabelMapOf(Flatten([i \in 1..Len(issues) |-> issues[i].labels])))

\* ----------------------------------------------------------- averages

\* Math.max(0, x)
Max0(x) == IF x > 0 THEN x ELSE 0

\* Math.round(total / n) for total >= 0 and n > 0.
RoundDiv(total, n) == (2 * total + n) \div (2 * n)

\* undefined for no value, else the rounded mean.
AverageOf(ds) ==
    IF ds = <<>> THEN Absent ELSE Some(RoundDiv(SumSeq(ds), Len(ds)))

\* An average that leaves the issues completed before their start out.
avgCycleTimeMs_DropsNegative(issues) ==
    LET completed == SelectSeq(issues, LAMBDA i :
            /\ i.completedAt.has
            /\ i.completedAt.v >= (IF i.startedAt.has THEN i.startedAt.v
                                   ELSE i.createdAt)) IN
    AverageOf([k \in 1..Len(completed) |->
        completed[k].completedAt.v
        - (IF completed[k].startedAt.has THEN completed[k].startedAt.v
           ELSE completed[k].createdAt)])

\* Avg cycle time over the issues with completedAt, from startedAt || createdAt.
avgCycleTimeMs(issues) ==
    LET completed == SelectSeq(issues, LAMBDA i : i.completedAt.has) IN
    AverageOf([k \in 1..Len(completed) |->
        Max0(completed[k].completedAt.v
             - (IF completed[k].startedAt.has THEN completed[k].startedAt.v
                ELSE completed[k].createdAt))])

\* Avg age over the issues without completedAt, at clock reading `clock`.
avgOpenAgeMs(issues, clock) ==
    LET open == SelectSeq(issues, LAMBDA i : ~i.completedAt.has) IN
    AverageOf([k \in 1..Len(open) |-> Max0(clock - open[k].createdAt)])

\* Approximate triage time over the issues with startedAt.
avgTriageTimeMs(issues) ==
    LET startedIssues == SelectSeq(issues, LAMBDA i : i.startedAt.has) IN
    AverageOf([k \in 1..Len(startedIssues) |->
        Max0(startedIssues[k].startedAt.v - startedIssues[k].createdAt)])

\* ------------------------------------------------------ issue history

MAX_HISTORY_ISSUES == 40

\* BACKLOG with U+212A KELVIN SIGN for its K.
KelvinBacklog == Chars(<<"B","A","C">>) \o <<8490>> \o Chars(<<"L","O","G">>)
MixedCaseTriage == Chars(<<"T","r","i","a","g","e">>)
TriageType == Chars(<<"t","r","i","a","g","e">>)
BacklogType == Chars(<<"b","a","c","k","l","o","g">>)
StartedType == Chars(<<"s","t","a","r","t","e","d">>)
TRIAGE_FROM_TYPES == {TriageType, BacklogType}

\* A history node; a state that is missing or has no type is the type <<>>,
\* which the code reads as ''.
HistoryNode(createdAt, fromType, toType) ==
    [createdAt |-> createdAt, fromType |-> fromType, toType |-> toType]

\* The predicate of nodes.find(...): out of triage or backlog, not into triage.
IsLeaving(n) ==
    /\ toLowerCase(n.fromType) \in TRIAGE_FROM_TYPES
    /\ toLowerCase(n.toType) # TriageType

\* Index of the node nodes.find(...) returns, 0 for undefined.
Leaving(nodes) ==
    LET idx == {k \in 1..Len(nodes) : IsLeaving(nodes[k])} IN
    IF idx = {} THEN 0 ELSE CHOOSE k \in idx : \A j \in idx : k <= j

\* What the callback of one history request pushes to `durations`: nothing
\* when the request rejects; the time to the leaving event, or without such
\* an event the time to startedAt; never a duration of 0.
HistoryDurations(iss, resp) ==
    IF resp.thrown THEN <<>>
    ELSE LET k == Leaving(resp.data) IN
         IF k > 0
         THEN LET d == Max0(resp.data[k].createdAt - iss.createdAt) IN
              IF d > 0 THEN <<d>> ELSE <<>>
         ELSE IF iss.startedAt.has
         THEN LET d == Max0(iss.startedAt.v - iss.createdAt) IN
              IF d > 0 THEN <<d>> ELSE <<>>
         ELSE <<>>

\* The chunks of the sample: sample.slice(i, i + CONCURRENCY) for i = 0,
\* CONCURRENCY, 2 * CONCURRENCY, ... as long as i < sample.length. slice
\* truncates its two indexes to integers and stops at the end of the array,
\* so that at CONCURRENCY 2.5 the chunks are [0,2), [2,5), [5,7), [7,10),
\* ...; with CONCURRENCY NaN the loop pushes slice(0, NaN) = [] once and
\* ends. The k-th value of i is (k - 1) * CONCURRENCY, exact in doubles.
Chunks(sample, concurrency) ==
    IF concurrency.nan THEN << <<>> >>
    ELSE LET c2 == Twice(concurrency)
             n == Len(sample)
         IN  [k \in 1..((2 * n + c2 - 1) \div c2) |->
                SubSeq(sample, ((k - 1) * c2) \div 2 + 1,
                       IF (k * c2) \div 2 < n THEN (k * c2) \div 2 ELSE n)]

\* Math.max(1, Math.min(10, Number(... || 6)))
HistoryConcurrencyOf(pub, plain) ==
    MathMax(Num(1), MathMin(Num(10), ConfigNumber(pub, plain, 6)))

\* NEXT_PUBLIC_ENABLE_ACCURATE_TRIAGE === 'true' || ENABLE_ACCURATE_TRIAGE === 'true'
AccurateTriageOf(pub, plain) == pub = "true" \/ plain = "true"

\* ------------------------------------------------------------ mapping

\* allIssueNodes.map(issueData => ({...})): the fields the metrics read.
MapIssue(n) ==
    [id |-> <<n.c, n.p, n.i>>,
     estimate |-> NodeEstimate(n),
     state |-> [type |-> NodeStateType(n)],
     createdAt |-> NodeCreatedAt(n),
     startedAt |-> NodeStartedAt(n),
     completedAt |-> NodeCompletedAt(n),
     labels |-> NodeLabels(n)]

MapIssues(nodes) == [i \in 1..Len(nodes) |-> MapIssue(nodes[i])]

\* ------------------------------------------------------------- state

VARIABLES
    pc,                         \* where fetchDashboardData is
    LINEAR_API_KEY,             \* process.env.LINEAR_API_KEY is set
    apolloClientInstance,       \* the cached client exists
    constructed,                \* clients constructed by the process so far
    INITIAL_ISSUES_PAGE,
    MAX_PAGES,
    PAGE_N,                     \* page size of the follow-up page requests
    upstream,                   \* the consistent upstream: its issues per cycle
                                \* (SpecEq), its answer to the combined query
                                \* (SpecClassify)
    ENABLE_ACCURATE_TRIAGE,
    CONCURRENCY,                \* of the history requests
    now,                        \* the reading of Date.now() during the fetch
    combined,                   \* the combined queries issued, in order
    data,                       \* the combined query's data
    needFirstPageLabelRefetch,
    firstPageSizeUsed,
    leadsQueries,               \* leads queries issued
    leadsByTeam,                \* ids of the teams with a lead in the map
    tk,                         \* the per-team tasks of Promise.all
    completion,                 \* the tasks in the order they settled
    teams,                      \* the returned list
    error,                      \* what fetchDashboardData throws
    others                      \* the locals of the other invocations of
                                \* fetchDashboardData that are pending

vars == <<pc, LINEAR_API_KEY, apolloClientInstance, constructed,
          INITIAL_ISSUES_PAGE,
          MAX_PAGES, PAGE_N, upstream, ENABLE_ACCURATE_TRIAGE, CONCURRENCY,
          now, combined, data, needFirstPageLabelRefetch,
          firstPageSizeUsed, leadsQueries, leadsByTeam, tk, completion,
          teams, error, others>>

\* What a turn of a fetch leaves alone: what the environment sets, and the
\* locals of the other invocations.
envVars == <<LINEAR_API_KEY, INITIAL_ISSUES_PAGE, MAX_PAGES, PAGE_N, upstream,
             ENABLE_ACCURATE_TRIAGE, CONCURRENCY, now, others>>

\* Math.max(10, Math.min(100, Number(... || 50)))
InitialIssuesPageOf(pub, plain) ==
    MathMax(Num(10), MathMin(Num(100), ConfigNumber(pub, plain, 50)))

\* Math.max(25, Math.min(200, Number(... || 100)))
PageNOf(pub, plain) ==
    MathMax(Num(25), MathMin(Num(200), ConfigNumber(pub, plain, 100)))

\* -------------------------------------------------- upstream responses

\* What apolloClient.query does: resolves with { data, errors } or throws.
Result(errors, payload) == [thrown |-> FALSE, errors |-> errors, data |-> payload]
Throw(e) == [thrown |-> TRUE, err |-> e]
NoResponse == [thrown |-> FALSE, errors |-> <<>>, data |-> NoPage, none |-> TRUE]

\* Whether a response reports an error, and whether that error is a
\* complexity error.
ReportsError(resp) == resp.thrown \/ Len(resp.errors) > 0
ReportsComplexity(resp) ==
    IF resp.thrown THEN isComplexityError(resp.err)
    ELSE Len(resp.errors) > 0 /\ isComplexityError(Arr(resp.errors))

\* issueEstimationType of the team with this id: the first three teams have
\* 'fibonacci', 'notUsed' and none (the field is missing); the teams after
\* them 'tShirt', the empty string, 'NotUsed' and null, and so on in turn.
EstimationTypeOf(id) ==
    IF id % 7 = 1 THEN "fibonacci"
    ELSE IF id % 7 = 2 THEN "notUsed"
    ELSE IF id % 7 = 3 THEN Undefined
    ELSE IF id % 7 = 4 THEN "tShirt"
    ELSE IF id % 7 = 5 THEN ""
    ELSE IF id % 7 = 6 THEN "NotUsed"
    ELSE Null

TeamNode(id, hasCycle, issues) ==
    [id |-> id, issueEstimationType |-> EstimationTypeOf(id),
     hasActiveCycle |-> hasCycle, issues |-> issues]

\* First pages of the combined query in Spec.
DashFirstPages(c, withLabels) ==
    {Page(PageNodes(c, 0, 2, withLabels), TRUE, TRUE, "a"),
     Page(PageNodes(c, 0, 1, withLabels), TRUE, FALSE, Undefined)}

\* The n-th team of a list of len teams: the upstream lists the ids downwards.
TeamIdAt(len, n) == len + 1 - n

TeamLists(withLabels) ==
    UNION {
        { list \in [1..len -> UNION {
                        {TeamNode(id, FALSE, NoPage)} \cup
                        {TeamNode(id, TRUE, p) : p \in DashFirstPages(id, withLabels)}
                        : id \in 1..len}] :
            \A n \in 1..len : list[n].id = TeamIdAt(len, n) }
        : len \in 0..MaxTeams }

\* data?.teams?.nodes: a team list, or none.
TeamsData(nodes) == [hasTeams |-> TRUE, nodes |-> nodes]
NoTeamsData == [hasTeams |-> FALSE, nodes |-> <<>>]

CombinedResponses(withLabels) ==
    {Result(ErrsNone, TeamsData(l)) : l \in TeamLists(withLabels)}
    \cup {Result(ErrsNone, NoTeamsData),
          Result(ErrsOther, NoTeamsData),
          Result(ErrsNoMessage, NoTeamsData),
          Result(ErrsComplex, NoTeamsData)}
    \cup {Result(ErrsOther, TeamsData(l)) :
            l \in {x \in TeamLists(withLabels) : Len(x) = 1}}
    \cup {Throw(e) : e \in ThrownErrors}

\* The answers to the labeled and to the light combined query in Spec.
DashCombinedLabeled == CombinedResponses(TRUE)
DashCombinedLight == CombinedResponses(FALSE)

\* Follow-up pages and their failures in Spec.
DashPageResponses(c, p) ==
    {Result(ErrsNone, Page(PageNodes(c, p, 1, TRUE), TRUE, TRUE, "b")),
     Result(ErrsNone, Page(PageNodes(c, p, 1, TRUE), TRUE, FALSE, Undefined)),
     Result(ErrsOther, Page(PageNodes(c, p, 2, TRUE), TRUE, FALSE, Undefined)),
     Result(ErrsComplex, NoPage),
     Throw(ThrowNetwork)}

\* Follow-up pages and their failures in SpecPag.
PagCursors == {"", "a", "b"}

PagPageResponses(c, p) ==
    {Result(errs, pg) : errs \in {ErrsNone, ErrsOther},
                        pg \in Pages(c, p, MaxPageLen, PagCursors, TRUE) \cup {NoPage}}
    \cup {Result(ErrsComplex, NoPage),
          Result(ErrsComplex, Page(PageNodes(c, p, 1, TRUE), TRUE, TRUE, "a"))}
    \cup {Throw(e) : e \in ThrownErrors}

\* The re-fetch of page one with labels.
RefetchResponses(c) ==
    {Result(ErrsNone, p) : p \in DashFirstPages(c, TRUE)}
    \cup {Result(ErrsOther, NoPage), Throw(ThrowNetwork)}

\* The answer to history request j for an issue: "reject", the request
\* rejects; "empty", it resolves with errors and no data; "quiet", it resolves
\* with a history of one event that leaves neither triage nor backlog;
\* "mixed", the odd requests resolve with a history with a leaving event (its
\* state types in mixed case, every other one spelt with the KELVIN SIGN) and
\* the even ones reject.

HistoryResponseOf(pattern, j, iss) ==
    IF pattern = "reject" THEN Throw(ThrowNetwork)
    ELSE IF pattern = "empty" THEN Result(ErrsOther, <<>>)
    ELSE IF pattern = "quiet"
    THEN Result(ErrsNone,
            <<HistoryNode(iss.createdAt + 2, StartedType,
                          Chars(<<"c","o","m","p","l","e","t","e","d">>))>>)
    ELSE IF j % 2 = 1
    THEN Result(ErrsNone,
            <<HistoryNode(iss.createdAt + 1, BacklogType, TriageType),
              HistoryNode(iss.createdAt + 4,
                          IF j % 4 = 1 THEN MixedCaseTriage ELSE KelvinBacklog,
                          StartedType),
              HistoryNode(iss.createdAt + 9, BacklogType, <<>>)>>)
    ELSE Throw(ThrowNetwork)

LeadsResponses == {Result(ErrsNone, {1}), Result(ErrsOther, {}), Throw(ThrowNetwork)}

\* ------------------------------------------------------- getApolloClient

\* getApolloClient(): the cached instance, or a new one when the key is set;
\* throws without the key.
getApolloClientThrows == ~apolloClientInstance /\ ~LINEAR_API_KEY

\* A getApolloClient that constructs a client on every call with the key.
getApolloClient_AlwaysNew(instance, key, count) ==
    IF ~key /\ ~instance
    THEN [threw |-> TRUE, instance |-> FALSE, constructed |-> count]
    ELSE IF ~key
    THEN [threw |-> FALSE, instance |-> TRUE, constructed |-> count]
    ELSE [threw |-> FALSE, instance |-> TRUE, constructed |-> count + 1]

\* getApolloClient() on the module's instance, the key of the environment
\* and the clients constructed so far: whether it throws, whether an
\* instance is cached after it, and the clients constructed after it.
getApolloClient(instance, key, count) ==
    IF instance
    THEN [threw |-> FALSE, instance |-> TRUE, constructed |-> count]
    ELSE IF ~key
    THEN [threw |-> TRUE, instance |-> FALSE, constructed |-> count]
    ELSE [threw |-> FALSE, instance |-> TRUE, constructed |-> count + 1]

\* Nothing thrown.
NoError == [isArray |-> FALSE, none |-> TRUE]

\* The error getApolloClient throws (the first sentence of its message).
MissingKeyError ==
    Thrown(TRUE,
           Chars(<<"L","I","N","E","A","R","_","A","P","I","_","K","E","Y"," ","e","n","v","i","r","o","n","m","e","n","t"," ">>
           \o <<"v","a","r","i","a","b","l","e"," ","i","s"," ","r","e","q","u","i","r","e","d",".">>),
           FALSE, 0, FALSE, <<>>)

\* new Error('No teams data received from Linear API')
NoTeamsError ==
    Thrown(TRUE,
           Chars(<<"N","o"," ","t","e","a","m","s"," ","d","a","t","a"," ","r","e","c","e","i","v","e","d"," ">>
           \o <<"f","r","o","m"," ","L","i","n","e","a","r"," ","A","P","I">>),
           FALSE, 0, FALSE, <<>>)

\* ----------------------------------------------------- the combined query

\* The error runCombined raises for a complexity error in result.errors.
ComplexityError ==
    Thrown(TRUE,
           Chars(<<"Q","u","e","r","y"," ","t","o","o"," ","c","o","m","p","l","e","x"," ">>
           \o <<"(","r","e","s","u","l","t",".","e","r","r","o","r","s",")">>),
           FALSE, 0, FALSE, <<>>)

\* runCombined raising its complexity error for any errors list.
runCombined_AnyErrorsComplex(resp) ==
    IF resp.thrown THEN [threw |-> TRUE, err |-> resp.err, data |-> NoTeamsData]
    ELSE IF Len(resp.errors) > 0
         THEN [threw |-> TRUE, err |-> ComplexityError, data |-> NoTeamsData]
         ELSE [threw |-> FALSE, err |-> ComplexityError, data |-> resp.data]

\* runCombined(withLabels, issuesPage) on the upstream's response: what it
\* throws, or the data it returns.
runCombined(resp) ==
    IF resp.thrown THEN [threw |-> TRUE, err |-> resp.err, data |-> NoTeamsData]
    ELSE IF Len(resp.errors) > 0 /\ isComplexityError(Arr(resp.errors))
         THEN [threw |-> TRUE, err |-> ComplexityError, data |-> NoTeamsData]
         ELSE [threw |-> FALSE, err |-> ComplexityError, data |-> resp.data]

\* One entry of the log of combined queries: the query, and what the
\* upstream's response reported for it.
CombinedEntry(withLabels, issuesPage, resp) ==
    [withLabels |-> withLabels, issuesPage |-> issuesPage,
     reported |-> IF ~ReportsError(resp) THEN "none"
                  ELSE IF ReportsComplexity(resp) THEN "complexity" ELSE "other",
     hasTeams |-> ~resp.thrown /\ resp.data.hasTeams]

\* A task of the Promise.all fan-out, before its callback has run. Of the
\* history requests it keeps the number settled and rejected, the positions
\* in the sample of the requests in flight, and the answers that came.
NewTask ==
    [tpc |-> "start", cycleSet |-> FALSE, issues |-> <<>>,
     all |-> <<>>, hasNext |-> FALSE, cursor |-> Undefined,
     prevCursor |-> Undefined, pageCounter |-> 0,
     first |-> <<>>, reqs |-> <<>>, served |-> <<>>, last |-> NoResponse,
     refetchThrew |-> FALSE, refetches |-> 0,
     chunks |-> <<>>, batch |-> 0, durations |-> <<>>,
     historyReqs |-> 0, historyRejected |-> 0, out |-> <<>>,
     inflight |-> {}, answers |-> {}]

\* After the ladder: `if (!data?.teams?.nodes) throw`, else on to the leads.
AfterCombined(d) ==
    /\ data' = d
    /\ pc' = IF d.hasTeams THEN "leads" ELSE "thrown"
    /\ error' = IF d.hasTeams THEN error ELSE NoTeamsError

\* fetchDashboardData from its invocation to its first await: getApolloClient
\* throws, which the catch rethrows, or it returns the client, constructed
\* now or before, and the first combined query is sent; the function returns
\* its promise to the caller at the await of runCombined.
fetchDashboardData ==
    LET client == getApolloClient(apolloClientInstance, LINEAR_API_KEY,
                                  constructed)
    IN  /\ pc = "start"
        /\ apolloClientInstance' = client.instance
        /\ constructed' = client.constructed
        /\ pc' = IF client.threw THEN "thrown" ELSE "first"
        /\ error' = IF client.threw THEN MissingKeyError ELSE error
        /\ UNCHANGED <<envVars, combined, data, needFirstPageLabelRefetch,
                       firstPageSizeUsed, leadsQueries, leadsByTeam, tk,
                       completion, teams>>

\* The answer to the first combined attempt, and the ladder's next rung.
CombinedFirstOn(responses) ==
    /\ pc = "first"
    /\ \E resp \in responses :
        LET r == runCombined(resp) IN
        /\ combined' = Append(combined,
                          CombinedEntry(TRUE, INITIAL_ISSUES_PAGE, resp))
        /\ IF ~r.threw
           THEN /\ AfterCombined(r.data)
                /\ UNCHANGED firstPageSizeUsed
           ELSE IF isComplexityError(r.err)
           THEN /\ pc' = "retry"
                /\ firstPageSizeUsed' = MathMin(Num(50), INITIAL_ISSUES_PAGE)
                /\ UNCHANGED <<data, error>>
           ELSE /\ pc' = "thrown"
                /\ error' = r.err
                /\ UNCHANGED <<data, firstPageSizeUsed>>
    /\ UNCHANGED <<envVars, apolloClientInstance, constructed,
                   needFirstPageLabelRefetch, leadsQueries, leadsByTeam, tk,
                   completion, teams>>

CombinedFirst == CombinedFirstOn(DashCombinedLabeled)

\* The retry with labels at the reduced page size.
CombinedRetryOn(responses) ==
    /\ pc = "retry"
    /\ \E resp \in responses :
        LET r == runCombined(resp) IN
        /\ combined' = Append(combined, CombinedEntry(TRUE, firstPageSizeUsed, resp))
        /\ IF ~r.threw
           THEN /\ AfterCombined(r.data)
                /\ UNCHANGED firstPageSizeUsed
           ELSE IF isComplexityError(r.err)
           THEN /\ pc' = "light"
                /\ firstPageSizeUsed' = Num(25)
                /\ UNCHANGED <<data, error>>
           ELSE /\ pc' = "thrown"
                /\ error' = r.err
                /\ UNCHANGED <<data, firstPageSizeUsed>>
    /\ UNCHANGED <<envVars, apolloClientInstance, constructed, needFirstPageLabelRefetch,
                   leadsQueries, leadsByTeam, tk, completion, teams>>

CombinedRetry == CombinedRetryOn(DashCombinedLabeled)

\* The light query without labels; whatever it throws propagates.
CombinedLightOn(responses) ==
    /\ pc = "light"
    /\ \E resp \in responses :
        LET r == runCombined(resp) IN
        /\ combined' = Append(combined, CombinedEntry(FALSE, firstPageSizeUsed, resp))
        /\ IF ~r.threw
           THEN /\ AfterCombined(r.data)
                /\ needFirstPageLabelRefetch' = TRUE
           ELSE /\ pc' = "thrown"
                /\ error' = r.err
                /\ UNCHANGED <<data, needFirstPageLabelRefetch>>
    /\ UNCHANGED <<envVars, apolloClientInstance, constructed, firstPageSizeUsed,
                   leadsQueries, leadsByTeam, tk, completion, teams>>

CombinedLight == CombinedLightOn(DashCombinedLight)

\* ------------------------------------------------- fetchAllCycleIssues

\* The head of `while (hasNext)` with its MAX_PAGES guard: on to the next
\* page request, or out of the loop, where fetchAllCycleIssues returns `all`
\* and the caller maps it to the team's issues.
LoopHead(st) ==
    IF st.hasNext /\ ~GreaterEq(Num(st.pageCounter), MAX_PAGES)
    THEN [st EXCEPT !.tpc = "page"]
    ELSE [st EXCEPT !.tpc = "metrics", !.issues = MapIssues(st.all)]

\* A `break` out of the loop.
Break(st) == [st EXCEPT !.tpc = "metrics", !.issues = MapIssues(st.all)]

\* A pagination that takes a first page without page info to have more.
EnterPagination_MissingInfoHasNext(st, firstPage) ==
    LoopHead([st EXCEPT
        !.all = IF firstPage.present THEN firstPage.nodes ELSE <<>>,
        !.hasNext = firstPage.present
                    /\ (~firstPage.hasPageInfo \/ firstPage.hasNextPage),
        !.cursor = IF firstPage.present /\ firstPage.hasPageInfo
                   THEN firstPage.endCursor ELSE Undefined,
        !.pageCounter = 0,
        !.prevCursor = Undefined,
        !.first = IF firstPage.present THEN firstPage.nodes ELSE <<>>])

\* fetchAllCycleIssues(cycleId, firstPage) up to its first request.
EnterPagination(st, firstPage) ==
    LoopHead([st EXCEPT
        !.all = IF firstPage.present THEN firstPage.nodes ELSE <<>>,
        !.hasNext = firstPage.present /\ firstPage.hasPageInfo
                    /\ firstPage.hasNextPage,
        !.cursor = IF firstPage.present /\ firstPage.hasPageInfo
                   THEN firstPage.endCursor ELSE Undefined,
        !.pageCounter = 0,
        !.prevCursor = Undefined,
        !.first = IF firstPage.present THEN firstPage.nodes ELSE <<>>])

\* The stale-cursor test after a page was appended.
StaleCursor(st) == Truthy(st.prevCursor) /\ st.prevCursor = st.cursor

\* The loop body testing the cursor before it keeps the page.
AppendPage_StaleFirst(st, page) ==
    LET next == [st EXCEPT
            !.all = st.all \o page.nodes,
            !.hasNext = page.hasPageInfo /\ page.hasNextPage,
            !.prevCursor = st.cursor,
            !.cursor = IF page.hasPageInfo THEN page.endCursor ELSE Undefined,
            !.pageCounter = st.pageCounter + 1]
    IN  IF StaleCursor(next) THEN Break([next EXCEPT !.all = st.all])
        ELSE LoopHead(next)

\* The body of the loop on a page that arrived with nodes.
AppendPage(st, page) ==
    LET next == [st EXCEPT
            !.all = st.all \o page.nodes,
            !.hasNext = page.hasPageInfo /\ page.hasNextPage,
            !.prevCursor = st.cursor,
            !.cursor = IF page.hasPageInfo THEN page.endCursor ELSE Undefined,
            !.pageCounter = st.pageCounter + 1]
    IN  IF StaleCursor(next) THEN Break(next) ELSE LoopHead(next)

\* The loop giving up what it collected on a complexity error.
HandlePage_ComplexityDiscards(st, resp) ==
    IF resp.thrown
    THEN IF isComplexityError(resp.err) THEN Break([st EXCEPT !.all = <<>>])
         ELSE Break(st)
    ELSE IF Len(resp.errors) > 0 /\ isComplexityError(Arr(resp.errors))
    THEN Break([st EXCEPT !.all = <<>>])
    ELSE IF ~resp.data.present \/ Len(resp.data.nodes) = 0
    THEN Break(st)
    ELSE AppendPage(st, resp.data)

\* One iteration of the loop on the upstream's response.
HandlePage(st, resp) ==
    IF resp.thrown THEN Break(st)
    ELSE IF Len(resp.errors) > 0 /\ isComplexityError(Arr(resp.errors))
    THEN Break(st)
    ELSE IF ~resp.data.present \/ Len(resp.data.nodes) = 0
    THEN Break(st)
    ELSE AppendPage(st, resp.data)

\* What the upstream delivered, whatever the loop does with it: the request's
\* cursor, the response, and the pages that came without a failure.
Delivered(st, resp) ==
    [st EXCEPT
        !.reqs = Append(st.reqs, st.cursor),
        !.last = resp,
        !.served = IF ~resp.thrown /\ ~ReportsComplexity(resp) /\ resp.data.present
                   THEN Append(st.served, resp.data.nodes)
                   ELSE st.served]

\* ------------------------------------------------------- the team tasks

\* A callback that leaves out the averages of a team without lead.
TeamMetricsOf_AveragesNeedLead(d, leads, st) ==
    [base |-> calculateTeamMetrics(d, st.cycleSet, st.issues),
     labelCounts |-> LabelCountsOf(st.issues),
     meta |-> [avgCycleTimeMs |-> IF d.id \in leads
                                  THEN avgCycleTimeMs(st.issues) ELSE Absent,
               avgOpenAgeMs |-> avgOpenAgeMs(st.issues, now),
               avgTriageTimeMs |-> avgTriageTimeMs(st.issues),
               lead |-> d.id \in leads]]

\* The TeamMetrics the callback returns: the base metrics, the label counts
\* and the meta block, whose triage time is the accurate one when accurate
\* triage is enabled and collected a duration.
TeamMetricsOf(d, leads, st) ==
    LET accurate == AverageOf(st.durations) IN
    [base |-> calculateTeamMetrics(d, st.cycleSet, st.issues),
     labelCounts |-> LabelCountsOf(st.issues),
     meta |-> [avgCycleTimeMs |-> avgCycleTimeMs(st.issues),
               avgOpenAgeMs |-> avgOpenAgeMs(st.issues, now),
               avgTriageTimeMs |->
                    IF ENABLE_ACCURATE_TRIAGE /\ accurate.has THEN accurate
                    ELSE avgTriageTimeMs(st.issues),
               lead |-> d.id \in leads]]

\* The return of the callback.
TeamReturn(d, leads, st) ==
    [st EXCEPT !.tpc = "done", !.out = <<TeamMetricsOf(d, leads, st)>>]

\* The number of sample issues in the chunks before chunk b.
ChunkOffset(chunks, b) == SumSeq([k \in 1..(b - 1) |-> Len(chunks[k])])

\* group.map(async (iss) => ...) of batch b: the callback of every issue of
\* the group runs to its request, so the requests of the group are in flight
\* together.
StartBatch(st, b) ==
    [st EXCEPT !.batch = b,
               !.inflight = {ChunkOffset(st.chunks, b) + j :
                                j \in 1..Len(st.chunks[b])}]

\* A callback that takes the issues of the combined query's first page when
\* the fetch of the team's issues brought none.
TeamComplete_FallsBackToCombinedPage(d, leads, st) ==
    IF st.tpc # "metrics" THEN st
    ELSE LET kept == IF st.issues = <<>> /\ d.issues.present
                     THEN [st EXCEPT !.issues = MapIssues(d.issues.nodes)]
                     ELSE st
             sample == SubSeq(kept.issues, 1,
                           IF Len(kept.issues) < MAX_HISTORY_ISSUES
                           THEN Len(kept.issues) ELSE MAX_HISTORY_ISSUES)
         IN  IF ~ENABLE_ACCURATE_TRIAGE \/ sample = <<>>
             THEN TeamReturn(d, leads, kept)
             ELSE IF getApolloClientThrows
             THEN [kept EXCEPT !.tpc = "rejected"]
             ELSE StartBatch([kept EXCEPT !.tpc = "history",
                                          !.chunks = Chunks(sample, CONCURRENCY)],
                             1)

\* The rest of the callback once the team's issues are settled: without
\* accurate triage, or without an issue to sample, it runs to its return;
\* else computeAccurateTriageAvg gets the client, cuts the sample into chunks
\* and awaits the first batch.
TeamComplete(d, leads, st) ==
    IF st.tpc # "metrics" THEN st
    ELSE LET sample == SubSeq(st.issues, 1,
                           IF Len(st.issues) < MAX_HISTORY_ISSUES
                           THEN Len(st.issues) ELSE MAX_HISTORY_ISSUES)
         IN  IF ~ENABLE_ACCURATE_TRIAGE \/ sample = <<>>
             THEN TeamReturn(d, leads, st)
             ELSE IF getApolloClientThrows
             THEN [st EXCEPT !.tpc = "rejected"]
             ELSE StartBatch([st EXCEPT !.tpc = "history",
                                        !.chunks = Chunks(sample, CONCURRENCY)],
                             1)

\* Promise.allSettled failing with the first request that rejects.
HistorySettle_RejectionFails(d, leads, st, j, resp) ==
    IF resp.thrown THEN [st EXCEPT !.tpc = "rejected"]
    ELSE LET next == [st EXCEPT
                !.durations = @ \o HistoryDurations(st.issues[j], resp),
                !.historyReqs = @ + 1,
                !.inflight = @ \ {j},
                !.answers = @ \cup {<<j, resp>>}]
         IN  IF next.inflight # {} THEN next
             ELSE IF st.batch < Len(st.chunks) THEN StartBatch(next, st.batch + 1)
             ELSE TeamReturn(d, leads, next)

\* The request for the history of the sample's j-th issue settles: its
\* callback pushes its duration, or the request rejects and pushes nothing.
\* With the last request of the group Promise.allSettled resolves, and the
\* loop goes on to the next group or the function returns the average.
HistorySettle(d, leads, st, j, resp) ==
    LET next == [st EXCEPT
            !.durations = @ \o HistoryDurations(st.issues[j], resp),
            !.historyReqs = @ + 1,
            !.historyRejected = @ + (IF resp.thrown THEN 1 ELSE 0),
            !.inflight = @ \ {j},
            !.answers = @ \cup {<<j, resp>>}]
    IN  IF next.inflight # {} THEN next
        ELSE IF st.batch < Len(st.chunks) THEN StartBatch(next, st.batch + 1)
        ELSE TeamReturn(d, leads, next)

\* Promise.allSettled over an empty group: no request, on to what follows.
HistoryEmptyGroup(d, leads, st) ==
    IF st.batch < Len(st.chunks) THEN StartBatch(st, st.batch + 1)
    ELSE TeamReturn(d, leads, st)

\* The callback re-fetching page one whether or not the light query was used.
TeamStart_AlwaysRefetch(d, leads, refetch) ==
    TeamComplete(d, leads,
        IF ~d.hasActiveCycle
        THEN [NewTask EXCEPT !.tpc = "metrics"]
        ELSE [NewTask EXCEPT !.tpc = "refetch", !.cycleSet = TRUE])

\* A callback that fetches the issues without looking for an active cycle.
TeamStart_CycleNotChecked(d, leads, refetch) ==
    TeamComplete(d, leads,
        IF refetch
        THEN [NewTask EXCEPT !.tpc = "refetch", !.cycleSet = d.hasActiveCycle]
        ELSE EnterPagination([NewTask EXCEPT !.cycleSet = d.hasActiveCycle],
                             d.issues))

\* The callback of a team up to its first await.
TeamStart(d, leads, refetch) ==
    TeamComplete(d, leads,
        IF ~d.hasActiveCycle
        THEN [NewTask EXCEPT !.tpc = "metrics"]
        ELSE IF refetch
        THEN [NewTask EXCEPT !.tpc = "refetch", !.cycleSet = TRUE]
        ELSE EnterPagination([NewTask EXCEPT !.cycleSet = TRUE], d.issues))

\* The re-fetch asking for the light selection, without labels.
AfterRefetch_Unlabeled(st, resp) ==
    IF resp.thrown
    THEN [st EXCEPT !.tpc = "metrics", !.refetchThrew = TRUE, !.refetches = @ + 1]
    ELSE EnterPagination([st EXCEPT !.refetches = @ + 1],
            [resp.data EXCEPT !.nodes =
                [i \in 1..Len(resp.data.nodes) |->
                    [resp.data.nodes[i] EXCEPT !.labels = FALSE]]])

\* The re-fetch outside the team's try: what it throws rejects the task.
AfterRefetch_Uncaught(st, resp) ==
    IF resp.thrown
    THEN [st EXCEPT !.tpc = "rejected", !.refetchThrew = TRUE, !.refetches = @ + 1]
    ELSE EnterPagination([st EXCEPT !.refetches = @ + 1], resp.data)

\* The team's catch resetting the cycle with the issues.
AfterRefetch_DropsCycle(st, resp) ==
    IF resp.thrown
    THEN [st EXCEPT !.tpc = "metrics", !.refetchThrew = TRUE, !.refetches = @ + 1,
                    !.cycleSet = FALSE]
    ELSE EnterPagination([st EXCEPT !.refetches = @ + 1], resp.data)

\* fetchFirstCyclePageWithLabels: its page goes to the pagination; what it
\* throws is caught by the team's try and leaves issues = [].
AfterRefetch(st, resp) ==
    IF resp.thrown
    THEN [st EXCEPT !.tpc = "metrics", !.refetchThrew = TRUE, !.refetches = @ + 1]
    ELSE EnterPagination([st EXCEPT !.refetches = @ + 1], resp.data)

\* The values collected in the order in which the tasks settled.
PromiseAll_CompletionOrder(tasks, order) ==
    [n \in 1..Len(tasks) |-> tasks[order[n]].out[1]]

\* A result the callbacks share: every position holds what the callback that
\* settled last returned.
PromiseAll_SharedResult(tasks, order) ==
    [t \in 1..Len(tasks) |-> tasks[order[Len(order)]].out[1]]

\* Promise.all resolves with the tasks' values in the order of the tasks,
\* whatever the order in which they settled.
PromiseAll(tasks, order) == [t \in 1..Len(tasks) |-> tasks[t].out[1]]

Settled(st) == st.tpc \in {"done", "rejected"}

\* The tasks from t on that settle in a step and went through the
\* active-cycle block (yielded) or not, in the order of the list.
RECURSIVE SettledNow(_, _, _, _)
SettledNow(tasks, order, t, yielded) ==
    IF t > Len(tasks) THEN <<>>
    ELSE (IF /\ Settled(tasks[t])
             /\ ~\E n \in 1..Len(order) : order[n] = t
             /\ tasks[t].cycleSet = yielded
          THEN <<t>> ELSE <<>>) \o SettledNow(tasks, order, t + 1, yielded)

\* The tasks that settle in a step, in the order they settle. A callback
\* without active cycle runs to its return inside map() (with accurate
\* triage, one microtask later: computeAccurateTriageAvg returns at once on
\* an empty sample); a callback with an active cycle yields one microtask
\* more at `await fetchAllCycleIssues(...)`, also when no page is requested.
\* So the callbacks without cycle settle first, each group in list order.
NewlySettled(tasks, order, t) ==
    SettledNow(tasks, order, t, FALSE) \o SettledNow(tasks, order, t, TRUE)

\* The tasks after a step: Promise.all rejects as soon as a task rejects, and
\* fetchDashboardData rethrows (a task rejects with what getApolloClient
\* threw in computeAccurateTriageAvg, nothing else escapes its try); when the last task has returned, Promise.all
\* resolves and fetchDashboardData returns { teams, lastUpdated }.
Tasks(tasks, order) ==
    /\ tk' = tasks
    /\ completion' = order \o NewlySettled(tasks, order, 1)
    /\ IF \E t \in 1..Len(tasks) : tasks[t].tpc = "rejected"
       THEN /\ pc' = "thrown"
            /\ error' = MissingKeyError
            /\ UNCHANGED teams
       ELSE IF \A t \in 1..Len(tasks) : tasks[t].tpc = "done"
       THEN /\ pc' = "done"
            /\ teams' = PromiseAll(tasks, completion')
            /\ UNCHANGED error
       ELSE /\ pc' = "teams"
            /\ UNCHANGED <<teams, error>>

\* ----------------------------------------------------------- the leads

\* leadsByTeam after the leads query: empty when the query threw, else the
\* teams whose node has a lead.
LeadsByTeamOf(resp) == IF resp.thrown THEN {} ELSE resp.data

\* The best-effort leads query, then the fan-out: every team's callback runs
\* to its first await.
LeadsOn(responses) ==
    /\ pc = "leads"
    /\ \E resp \in responses :
        LET leads == LeadsByTeamOf(resp) IN
        /\ leadsQueries' = leadsQueries + 1
        /\ leadsByTeam' = leads
        /\ Tasks([t \in 1..Len(data.nodes) |->
                    TeamStart(data.nodes[t], leads, needFirstPageLabelRefetch)],
                 <<>>)
    /\ UNCHANGED <<envVars, apolloClientInstance, constructed, combined, data,
                   needFirstPageLabelRefetch, firstPageSizeUsed>>

Leads == LeadsOn(LeadsResponses)

\* The label re-fetch of team t's first page, and the callback up to its next
\* await.
TeamRefetch(t, responses) ==
    /\ pc = "teams"
    /\ tk[t].tpc = "refetch"
    /\ \E resp \in responses :
        Tasks([tk EXCEPT ![t] =
                TeamComplete(data.nodes[t], leadsByTeam, AfterRefetch(tk[t], resp))],
              completion)
    /\ UNCHANGED <<envVars, apolloClientInstance, constructed, combined, data,
                   needFirstPageLabelRefetch, firstPageSizeUsed,
                   leadsQueries, leadsByTeam>>

\* One follow-up page request of team t's cycle, and the callback up to its
\* next await.
PageFetch(t, responses, cap) ==
    /\ pc = "teams"
    /\ tk[t].tpc = "page"
    /\ Len(tk[t].reqs) < cap
    /\ \E resp \in responses :
        Tasks([tk EXCEPT ![t] =
                TeamComplete(data.nodes[t], leadsByTeam,
                             HandlePage(Delivered(tk[t], resp), resp))],
              completion)
    /\ UNCHANGED <<envVars, apolloClientInstance, constructed, combined, data,
                   needFirstPageLabelRefetch, firstPageSizeUsed,
                   leadsQueries, leadsByTeam>>

\* One history request of team t settles, in any order within its batch,
\* and the callback runs up to its next await. The requests for the first
\* `free` issues of the sample are answered in any of the given ways, the
\* others alternately with a history and a rejection.
HistoryRequest(t, patterns, free) ==
    /\ pc = "teams"
    /\ tk[t].tpc = "history"
    /\ \E j \in tk[t].inflight :
       \E pattern \in (IF j <= free THEN patterns ELSE {"mixed"}) :
        Tasks([tk EXCEPT ![t] =
                HistorySettle(data.nodes[t], leadsByTeam, tk[t], j,
                    HistoryResponseOf(pattern, IF j <= free THEN 1 ELSE j,
                                      tk[t].issues[j]))],
              completion)
    /\ UNCHANGED <<envVars, apolloClientInstance, constructed, combined, data,
                   needFirstPageLabelRefetch, firstPageSizeUsed,
                   leadsQueries, leadsByTeam>>

\* The batch of team t that has no request.
HistoryNoRequest(t) ==
    /\ pc = "teams"
    /\ tk[t].tpc = "history"
    /\ tk[t].chunks[tk[t].batch] = <<>>
    /\ Tasks([tk EXCEPT ![t] = HistoryEmptyGroup(data.nodes[t], leadsByTeam, tk[t])],
             completion)
    /\ UNCHANGED <<envVars, apolloClientInstance, constructed, combined, data,
                   needFirstPageLabelRefetch, firstPageSizeUsed,
                   leadsQueries, leadsByTeam>>

\* ------------------------------------------------------ specifications

\* Configurations of Spec: MAX_PAGES, the two accurate-triage flags,
\* HISTORY_CONCURRENCY and the clock.
DashConfigs ==
    {[maxPages |-> EnvUnset, accuratePub |-> Undefined, accuratePlain |-> "TRUE",
      concurrency |-> EnvUnset, clock |-> 20],
     [maxPages |-> EnvInt(1), accuratePub |-> "1", accuratePlain |-> "true",
      concurrency |-> EnvInt(1), clock |-> 2]}

\* The answers to the history requests in Spec: the odd ones resolve with a
\* history, the even ones reject.
DashHistoryAnswers == {"mixed"}

Init ==
    /\ pc = "start"
    /\ LINEAR_API_KEY \in BOOLEAN
    /\ apolloClientInstance = FALSE
    /\ constructed = 0
    /\ others = <<>>
    /\ INITIAL_ISSUES_PAGE = InitialIssuesPageOf(EnvUnset, EnvUnset)
    /\ \E c \in DashConfigs :
        /\ MAX_PAGES = MaxPagesOf(EnvUnset, c.maxPages)
        /\ PAGE_N = PageNOf(EnvUnset, EnvUnset)
        /\ upstream = 0
        /\ ENABLE_ACCURATE_TRIAGE = AccurateTriageOf(c.accuratePub, c.accuratePlain)
        /\ CONCURRENCY = HistoryConcurrencyOf(EnvUnset, c.concurrency)
        /\ now = c.clock
    /\ combined = <<>>
    /\ data = NoTeamsData
    /\ needFirstPageLabelRefetch = FALSE
    /\ firstPageSizeUsed = INITIAL_ISSUES_PAGE
    /\ leadsQueries = 0
    /\ leadsByTeam = {}
    /\ tk = <<>>
    /\ completion = <<>>
    /\ teams = <<>>
    /\ error = NoError

DashRefetch(t) == TeamRefetch(t, RefetchResponses(data.nodes[t].id))

DashPageFetch(t) ==
    PageFetch(t, DashPageResponses(data.nodes[t].id, Len(tk[t].reqs) + 1), DashMaxReq)

DashHistory(t) == HistoryRequest(t, DashHistoryAnswers, 0)

Next ==
    \/ fetchDashboardData
    \/ CombinedFirst
    \/ CombinedRetry
    \/ CombinedLight
    \/ Leads
    \/ \E t \in 1..Len(tk) : DashRefetch(t)
    \/ \E t \in 1..Len(tk) : DashPageFetch(t)
    \/ \E t \in 1..Len(tk) : DashHistory(t)

Spec == Init /\ [][Next]_vars

\* fetchAllCycleIssues on its own: one team whose combined query succeeded
\* with labels, any first page, any configuration of MAX_PAGES, no accurate
\* triage, and an upstream that answers every page request in any way.
PagMaxPagesEnv ==
    {<<EnvUnset, EnvUnset>>, <<EnvUnset, EnvText>>, <<EnvUnset, EnvInt(0)>>,
     <<EnvInt(2), EnvInt(1)>>, <<EnvEmpty, EnvInt(1001)>>}

InitPag ==
    /\ LINEAR_API_KEY = TRUE
    /\ apolloClientInstance = TRUE
    /\ constructed = 1
    /\ others = <<>>
    /\ INITIAL_ISSUES_PAGE = InitialIssuesPageOf(EnvUnset, EnvUnset)
    /\ \E env \in PagMaxPagesEnv : MAX_PAGES = MaxPagesOf(env[1], env[2])
    /\ PAGE_N = PageNOf(EnvUnset, EnvUnset)
    /\ upstream = 0
    /\ ENABLE_ACCURATE_TRIAGE = FALSE
    /\ CONCURRENCY = HistoryConcurrencyOf(EnvUnset, EnvUnset)
    /\ now = 20
    /\ \E p \in Pages(1, 0, MaxPageLen, PagCursors, TRUE) :
        /\ data = TeamsData(<<TeamNode(1, TRUE, p)>>)
        /\ combined = <<CombinedEntry(TRUE, INITIAL_ISSUES_PAGE,
                                      Result(ErrsNone, data))>>
        /\ tk = <<TeamStart(data.nodes[1], {}, FALSE)>>
    /\ needFirstPageLabelRefetch = FALSE
    /\ firstPageSizeUsed = INITIAL_ISSUES_PAGE
    /\ leadsQueries = 1
    /\ leadsByTeam = {}
    /\ completion = NewlySettled(tk, <<>>, 1)
    /\ pc = IF tk[1].tpc = "done" THEN "done" ELSE "teams"
    /\ teams = IF tk[1].tpc = "done" THEN PromiseAll(tk, completion) ELSE <<>>
    /\ error = NoError

PagFetch == PageFetch(1, PagPageResponses(1, Len(tk[1].reqs) + 1), MaxReq)

NextPag == PagFetch

SpecPag == InitPag /\ [][NextPag]_vars

\* fetchAllCycleIssues against an upstream that never ends: every page has
\* one node, announces a next page and carries a cursor that differs from the
\* one before. Only the MAX_PAGES guard can end this pagination.
EndlessPageResponses(c, p, cursor) ==
    {Result(ErrsNone, Page(PageNodes(c, p, 1, TRUE), TRUE, TRUE,
                           IF cursor = "a" THEN "b" ELSE "a"))}

\* NEXT_PUBLIC_MAX_PAGES and MAX_PAGES of the endless runs:
\* two small limits and a value that is not a number.
LoopMaxPagesEnv ==
    {<<EnvInt(1), EnvUnset>>, <<EnvUnset, EnvInt(2)>>, <<EnvText, EnvUnset>>}

InitLoop ==
    /\ LINEAR_API_KEY = TRUE
    /\ apolloClientInstance = TRUE
    /\ constructed = 1
    /\ others = <<>>
    /\ INITIAL_ISSUES_PAGE = InitialIssuesPageOf(EnvUnset, EnvUnset)
    /\ \E env \in LoopMaxPagesEnv : MAX_PAGES = MaxPagesOf(env[1], env[2])
    /\ PAGE_N = PageNOf(EnvUnset, EnvUnset)
    /\ upstream = 0
    /\ ENABLE_ACCURATE_TRIAGE = FALSE
    /\ CONCURRENCY = HistoryConcurrencyOf(EnvUnset, EnvUnset)
    /\ now = 20
    /\ data = TeamsData(<<TeamNode(1, TRUE,
                    Page(PageNodes(1, 0, 1, TRUE), TRUE, TRUE, "a"))>>)
    /\ combined = <<CombinedEntry(TRUE, INITIAL_ISSUES_PAGE, Result(ErrsNone, data))>>
    /\ tk = <<TeamStart(data.nodes[1], {}, FALSE)>>
    /\ needFirstPageLabelRefetch = FALSE
    /\ firstPageSizeUsed = INITIAL_ISSUES_PAGE
    /\ leadsQueries = 1
    /\ leadsByTeam = {}
    /\ completion = <<>>
    /\ pc = "teams"
    /\ teams = <<>>
    /\ error = NoError

LoopFetch ==
    PageFetch(1, EndlessPageResponses(1, Len(tk[1].reqs) + 1, tk[1].cursor), LoopMaxReq)

NextLoop == LoopFetch

SpecLoop == InitLoop /\ [][NextLoop]_vars

\* Two runs side by side against one consistent upstream, which holds
\* `upstream` issues for the cycle and serves them in order, by cursor and
\* page size: task 1 is the team's task in the run whose labeled combined
\* query succeeded at INITIAL_ISSUES_PAGE, task 2 the same team's task in the
\* run that fell back to the light query at page size 25. Every request
\* succeeds.
UpstreamNode(c, k, withLabels) ==
    Node(c, (k - 1) \div 3, ((k - 1) % 3) + 1, withLabels)

\* The page of at most n issues after the first `after` issues.
UpstreamPage(c, size, after, n, withLabels) ==
    LET last == IF after + n < size THEN after + n ELSE size IN
    Page([j \in 1..(last - after) |-> UpstreamNode(c, after + j, withLabels)],
         TRUE, last < size,
         IF last > after THEN ToString(last) ELSE Undefined)

\* The number of issues a cursor stands behind; `after: null` is the start.
CursorIndex(cursor, size) ==
    IF cursor = Undefined THEN 0 ELSE CHOOSE k \in 0..size : ToString(k) = cursor

\* ISSUES_PAGE_INITIAL, ISSUES_PAGE_PAGINATION and MAX_PAGES of the two runs.
EqConfigs ==
    {[initial |-> EnvUnset, pageN |-> EnvInt(25), maxPages |-> EnvInt(1)],
     [initial |-> EnvInt(10), pageN |-> EnvInt(25), maxPages |-> EnvInt(1)],
     [initial |-> EnvInt(10), pageN |-> EnvUnset, maxPages |-> EnvUnset]}

InitEq ==
    /\ LINEAR_API_KEY = TRUE
    /\ apolloClientInstance = TRUE
    /\ constructed = 1
    /\ others = <<>>
    /\ \E c \in EqConfigs :
        /\ INITIAL_ISSUES_PAGE = InitialIssuesPageOf(EnvUnset, c.initial)
        /\ PAGE_N = PageNOf(EnvUnset, c.pageN)
        /\ MAX_PAGES = MaxPagesOf(EnvUnset, c.maxPages)
    /\ upstream \in 0..MaxIssues
    /\ ENABLE_ACCURATE_TRIAGE = FALSE
    /\ CONCURRENCY = HistoryConcurrencyOf(EnvUnset, EnvUnset)
    /\ now = 20
    /\ needFirstPageLabelRefetch = TRUE
    /\ firstPageSizeUsed = Num(25)
    /\ \E id \in 1..2 :
        data = TeamsData(
            <<TeamNode(id, TRUE,
                  UpstreamPage(id, upstream, 0, INITIAL_ISSUES_PAGE.v, TRUE)),
              TeamNode(id, TRUE,
                  UpstreamPage(id, upstream, 0, firstPageSizeUsed.v, FALSE))>>)
    /\ combined = <<>>
    /\ leadsQueries = 1
    /\ leadsByTeam = {}
    /\ tk = <<TeamStart(data.nodes[1], {}, FALSE), TeamStart(data.nodes[2], {}, TRUE)>>
    /\ completion = NewlySettled(tk, <<>>, 1)
    /\ pc = "teams"
    /\ teams = <<>>
    /\ error = NoError

EqRefetch(t) ==
    TeamRefetch(t, {Result(ErrsNone,
        UpstreamPage(data.nodes[t].id, upstream, 0, firstPageSizeUsed.v, TRUE))})

EqPageFetch(t) ==
    PageFetch(t, {Result(ErrsNone,
        UpstreamPage(data.nodes[t].id, upstream,
                     CursorIndex(tk[t].cursor, upstream), PAGE_N.v, TRUE))},
        MaxIssues)

NextEq ==
    \/ \E t \in 1..Len(tk) : EqRefetch(t)
    \/ \E t \in 1..Len(tk) : EqPageFetch(t)

SpecEq == InitEq /\ [][NextEq]_vars

\* fetchDashboardData invoked twice against the consistent upstream, from
\* the leads query on: in the first run the leads query fails, in the second
\* it answers. Task 1 is the team's task of the first run, task 2 the same
\* team's task of the second run, started when the first run has returned.
InitLeads ==
    /\ LINEAR_API_KEY = TRUE
    /\ apolloClientInstance = TRUE
    /\ constructed = 1
    /\ others = <<>>
    /\ \E c \in EqConfigs :
        /\ INITIAL_ISSUES_PAGE = InitialIssuesPageOf(EnvUnset, c.initial)
        /\ PAGE_N = PageNOf(EnvUnset, c.pageN)
        /\ MAX_PAGES = MaxPagesOf(EnvUnset, c.maxPages)
    /\ upstream \in 0..MaxIssues
    /\ ENABLE_ACCURATE_TRIAGE = FALSE
    /\ CONCURRENCY = HistoryConcurrencyOf(EnvUnset, EnvUnset)
    /\ now = 20
    /\ needFirstPageLabelRefetch \in BOOLEAN
    /\ firstPageSizeUsed = IF needFirstPageLabelRefetch THEN Num(25)
                           ELSE INITIAL_ISSUES_PAGE
    /\ \E id \in 1..3 :
        data = TeamsData(
            <<TeamNode(id, TRUE,
                  UpstreamPage(id, upstream, 0, firstPageSizeUsed.v,
                               ~needFirstPageLabelRefetch))>>)
    /\ combined = <<>>
    /\ leadsQueries = 0
    /\ leadsByTeam = {}
    /\ tk = <<>>
    /\ completion = <<>>
    /\ pc = "leads"
    /\ teams = <<>>
    /\ error = NoError

LeadsFailures == {resp \in LeadsResponses : resp.thrown}
LeadsAnswers == {resp \in LeadsResponses : ~resp.thrown}

\* The leads query of the first run fails.
LeadsFailing == LeadsOn(LeadsFailures)

\* The second run, from its leads query, which answers, to the first await of
\* the team's callback; the combined query returned the same data.
LeadsAnswering ==
    /\ pc = "done"
    /\ Len(tk) = 1
    /\ \E resp \in LeadsAnswers :
        LET leads == LeadsByTeamOf(resp) IN
        /\ leadsQueries' = leadsQueries + 1
        /\ leadsByTeam' = leads
        /\ data' = TeamsData(data.nodes \o data.nodes)
        /\ Tasks(Append(tk, TeamStart(data.nodes[1], leads,
                                      needFirstPageLabelRefetch)),
                 completion)
    /\ UNCHANGED <<envVars, apolloClientInstance, constructed, combined,
                   needFirstPageLabelRefetch, firstPageSizeUsed>>

NextLeads ==
    \/ LeadsFailing
    \/ LeadsAnswering
    \/ \E t \in 1..Len(tk) : EqRefetch(t)
    \/ \E t \in 1..Len(tk) : EqPageFetch(t)

SpecLeads == InitLeads /\ [][NextLeads]_vars

\* calculateTeamMetrics on any team and any issue list: the tail of a team's
\* callback, from line 416 on, entered with an issue list of any estimates
\* (absent, zero, positive, negative) and state types.
MetricEstimates == {Absent, Some(0), Some(17), Some(23), Some(0 - 2)}
MetricStateTypes == {"started", "completed", "backlog"}

MetricIssue(k, estimate, type) ==
    [id |-> <<0, 0, k>>, estimate |-> estimate, state |-> [type |-> type],
     createdAt |-> 1, startedAt |-> Absent, completedAt |-> Absent,
     labels |-> <<>>]

MetricIssueLists(n) ==
    { [k \in 1..n |-> MetricIssue(k, f[k][1], f[k][2])] :
        f \in [1..n -> MetricEstimates \X MetricStateTypes] }

InitMetrics ==
    /\ LINEAR_API_KEY = TRUE
    /\ apolloClientInstance = TRUE
    /\ constructed = 1
    /\ others = <<>>
    /\ INITIAL_ISSUES_PAGE = InitialIssuesPageOf(EnvUnset, EnvUnset)
    /\ MAX_PAGES = MaxPagesOf(EnvUnset, EnvUnset)
    /\ PAGE_N = PageNOf(EnvUnset, EnvUnset)
    /\ upstream = 0
    /\ ENABLE_ACCURATE_TRIAGE = FALSE
    /\ CONCURRENCY = HistoryConcurrencyOf(EnvUnset, EnvUnset)
    /\ now = 20
    /\ needFirstPageLabelRefetch = FALSE
    /\ firstPageSizeUsed = INITIAL_ISSUES_PAGE
    /\ combined = <<>>
    /\ leadsQueries = 1
    /\ leadsByTeam = {}
    /\ \E id \in 1..7, n \in 0..MaxMetricIssues :
       \E issues \in MetricIssueLists(n) :
        \E cycle \in (IF issues = <<>> THEN BOOLEAN ELSE {TRUE}) :
            /\ data = TeamsData(<<TeamNode(id, cycle, NoPage)>>)
            /\ tk = <<[NewTask EXCEPT !.tpc = "metrics", !.cycleSet = cycle,
                                      !.issues = issues]>>
    /\ completion = <<>>
    /\ pc = "teams"
    /\ teams = <<>>
    /\ error = NoError

\* The callback from calculateTeamMetrics to its return.
MetricsReturn ==
    /\ pc = "teams"
    /\ tk[1].tpc = "metrics"
    /\ Tasks([tk EXCEPT ![1] = TeamComplete(data.nodes[1], leadsByTeam, tk[1])],
             completion)
    /\ UNCHANGED <<envVars, apolloClientInstance, constructed, combined, data,
                   needFirstPageLabelRefetch, firstPageSizeUsed,
                   leadsQueries, leadsByTeam>>

NextMetrics == MetricsReturn

SpecMetrics == InitMetrics /\ [][NextMetrics]_vars

\* calculateTeamMetrics on issue lists whose estimates are whole or written
\* with decimals (2, 0.1, 0.2, 0.3), of started, completed and backlog
\* issues, for a team that estimates and a team that does not.
PointEstimates == {Some(2), Decimal(1, 10), Decimal(2, 10), Decimal(3, 10)}
PointStateTypes == {"started", "completed", "backlog"}
PointTeams == {1, 2}

PointIssueLists(n) ==
    { [k \in 1..n |-> MetricIssue(k, f[k][1], f[k][2])] :
        f \in [1..n -> PointEstimates \X PointStateTypes] }

InitPoints ==
    /\ LINEAR_API_KEY = TRUE
    /\ apolloClientInstance = TRUE
    /\ constructed = 1
    /\ others = <<>>
    /\ INITIAL_ISSUES_PAGE = InitialIssuesPageOf(EnvUnset, EnvUnset)
    /\ MAX_PAGES = MaxPagesOf(EnvUnset, EnvUnset)
    /\ PAGE_N = PageNOf(EnvUnset, EnvUnset)
    /\ upstream = 0
    /\ ENABLE_ACCURATE_TRIAGE = FALSE
    /\ CONCURRENCY = HistoryConcurrencyOf(EnvUnset, EnvUnset)
    /\ now = 20
    /\ needFirstPageLabelRefetch = FALSE
    /\ firstPageSizeUsed = INITIAL_ISSUES_PAGE
    /\ combined = <<>>
    /\ leadsQueries = 1
    /\ leadsByTeam = {}
    /\ \E id \in PointTeams, n \in 1..MaxPointIssues :
       \E issues \in PointIssueLists(n) :
            /\ data = TeamsData(<<TeamNode(id, TRUE, NoPage)>>)
            /\ tk = <<[NewTask EXCEPT !.tpc = "metrics", !.cycleSet = TRUE,
                                      !.issues = issues]>>
    /\ completion = <<>>
    /\ pc = "teams"
    /\ teams = <<>>
    /\ error = NoError

NextPoints == MetricsReturn

SpecPoints == InitPoints /\ [][NextPoints]_vars

\* The ladder of combined queries against an upstream that fails every
\* combined query in the same way: an errors list in the response, or a
\* thrown error with a message and, possibly, a network-error payload with
\* its own errors list. The messages are listed with what they are: the ones
\* that hold the word in some case, and the ones that do not.
ComplexMessages == {MsgComplex, MsgQueryComplexity, MsgMixedCase}
PlainMessages == {MsgOther, MsgNetwork, MsgNearMiss, MsgEmpty, MsgKelvin}

ClassifyEntries ==
    {ErrMsg(m) : m \in ComplexMessages \cup PlainMessages} \cup {ErrNoMsg}

ClassifyErrorLists(minLen) ==
    UNION {[1..n -> ClassifyEntries] : n \in minLen..MaxErrors}

ClassifyResponses ==
    {Result(errors, NoTeamsData) : errors \in ClassifyErrorLists(0)}
    \cup {Throw(Thrown(TRUE, m, FALSE, 0, FALSE, <<>>)) :
            m \in ComplexMessages \cup PlainMessages}
    \cup {Throw(Thrown(TRUE, m, TRUE, 0, FALSE, <<>>)) :
            m \in ComplexMessages \cup PlainMessages}
    \cup {Throw(Thrown(TRUE, m, TRUE, 400, TRUE, errors)) :
            m \in ComplexMessages \cup PlainMessages,
            errors \in ClassifyErrorLists(0)}

InitClassify ==
    /\ pc = "start"
    /\ LINEAR_API_KEY = TRUE
    /\ apolloClientInstance = FALSE
    /\ constructed = 0
    /\ others = <<>>
    /\ INITIAL_ISSUES_PAGE = InitialIssuesPageOf(EnvUnset, EnvUnset)
    /\ MAX_PAGES = MaxPagesOf(EnvUnset, EnvUnset)
    /\ PAGE_N = PageNOf(EnvUnset, EnvUnset)
    /\ upstream \in ClassifyResponses
    /\ ENABLE_ACCURATE_TRIAGE = FALSE
    /\ CONCURRENCY = HistoryConcurrencyOf(EnvUnset, EnvUnset)
    /\ now = 20
    /\ combined = <<>>
    /\ data = NoTeamsData
    /\ needFirstPageLabelRefetch = FALSE
    /\ firstPageSizeUsed = INITIAL_ISSUES_PAGE
    /\ leadsQueries = 0
    /\ leadsByTeam = {}
    /\ tk = <<>>
    /\ completion = <<>>
    /\ teams = <<>>
    /\ error = NoError

ClassifyFirst == CombinedFirstOn({upstream})
ClassifyRetry == CombinedRetryOn({upstream})
ClassifyLight == CombinedLightOn({upstream})

NextClassify ==
    fetchDashboardData \/ ClassifyFirst \/ ClassifyRetry \/ ClassifyLight

SpecClassify == InitClassify /\ [][NextClassify]_vars

\* fetchDashboardData invoked again and again in one process, one call
\* after or during another: the module variable apolloClientInstance
\* outlives a call, and process.env is read anew by each call that has no
\* client yet, so the key may be there at one invocation and gone at the
\* next. The combined query is answered with one team that has no active
\* cycle, so that a call ends with the leads query, with no team list, with
\* a complexity error in either form, or with a network error.
CallResponsesOf(responses) ==
    {resp \in responses :
        \/ /\ resp.thrown
           /\ resp.err \in {ThrowNetwork, ThrowHttpComplex}
        \/ /\ ~resp.thrown
           /\ resp.errors \in {ErrsNone, ErrsComplex}
           /\ Len(resp.data.nodes) <= 1
           /\ \A n \in 1..Len(resp.data.nodes) :
                   ~resp.data.nodes[n].hasActiveCycle}

CallLabeled == CallResponsesOf(DashCombinedLabeled)
CallLightResponses == CallResponsesOf(DashCombinedLight)

\* ISSUES_PAGE_INITIAL at an invocation (line 102 reads it in each call).
CallInitialEnv == {EnvUnset, EnvInt(10)}

InitCalls ==
    /\ pc = "start"
    /\ LINEAR_API_KEY \in BOOLEAN
    /\ apolloClientInstance = FALSE
    /\ constructed = 0
    /\ others = <<>>
    /\ \E e \in CallInitialEnv :
        INITIAL_ISSUES_PAGE = InitialIssuesPageOf(EnvUnset, e)
    /\ MAX_PAGES = MaxPagesOf(EnvUnset, EnvUnset)
    /\ PAGE_N = PageNOf(EnvUnset, EnvUnset)
    /\ upstream = 0
    /\ ENABLE_ACCURATE_TRIAGE = FALSE
    /\ CONCURRENCY = HistoryConcurrencyOf(EnvUnset, EnvUnset)
    /\ now = 20
    /\ combined = <<>>
    /\ data = NoTeamsData
    /\ needFirstPageLabelRefetch = FALSE
    /\ firstPageSizeUsed = INITIAL_ISSUES_PAGE
    /\ leadsQueries = 0
    /\ leadsByTeam = {}
    /\ tk = <<>>
    /\ completion = <<>>
    /\ teams = <<>>
    /\ error = NoError

CallFirst == CombinedFirstOn(CallLabeled)
CallRetry == CombinedRetryOn(CallLabeled)
CallLight == CombinedLightOn(CallLightResponses)
CallLeadsAnswers == {Result(ErrsNone, {1}), Throw(ThrowNetwork)}
CallLeads == LeadsOn(CallLeadsAnswers)

\* The invocations of fetchDashboardData that are pending beside the one in
\* turn, at most.
MaxOverlap == 1

\* The locals of the invocation in turn.
Locals ==
    [pc |-> pc, INITIAL_ISSUES_PAGE |-> INITIAL_ISSUES_PAGE,
     combined |-> combined, data |-> data,
     needFirstPageLabelRefetch |-> needFirstPageLabelRefetch,
     firstPageSizeUsed |-> firstPageSizeUsed, leadsQueries |-> leadsQueries,
     leadsByTeam |-> leadsByTeam, tk |-> tk, completion |-> completion,
     teams |-> teams, error |-> error]

\* The locals of an invocation that is about to be made, with
\* ISSUES_PAGE_INITIAL as it is by then.
NewInvocation ==
    /\ pc' = "start"
    /\ \E e \in CallInitialEnv :
        INITIAL_ISSUES_PAGE' = InitialIssuesPageOf(EnvUnset, e)
    /\ combined' = <<>>
    /\ data' = NoTeamsData
    /\ needFirstPageLabelRefetch' = FALSE
    /\ firstPageSizeUsed' = INITIAL_ISSUES_PAGE'
    /\ leadsQueries' = 0
    /\ leadsByTeam' = {}
    /\ tk' = <<>>
    /\ completion' = <<>>
    /\ teams' = <<>>
    /\ error' = NoError

\* The next invocation, after the last one has returned or thrown: the
\* locals of fetchDashboardData are new, the module's client is kept.
Invoke ==
    /\ pc \in {"done", "thrown"}
    /\ NewInvocation
    /\ UNCHANGED <<LINEAR_API_KEY, apolloClientInstance, constructed,
                   MAX_PAGES, PAGE_N, upstream, ENABLE_ACCURATE_TRIAGE,
                   CONCURRENCY, now, others>>

\* Another invocation while this one awaits an answer: this one stays
\* pending with its locals, the new one has its own.
InvokeOverlapping ==
    /\ pc \notin {"start", "done", "thrown"}
    /\ Len(others) < MaxOverlap
    /\ others' = Append(others, Locals)
    /\ NewInvocation
    /\ UNCHANGED <<LINEAR_API_KEY, apolloClientInstance, constructed,
                   MAX_PAGES, PAGE_N, upstream, ENABLE_ACCURATE_TRIAGE,
                   CONCURRENCY, now>>

\* The event loop turns to another pending invocation: the next answer is
\* one to a request of that invocation. No variable of the program changes.
Switch(i) ==
    /\ others' = [others EXCEPT ![i] = Locals]
    /\ pc' = others[i].pc
    /\ INITIAL_ISSUES_PAGE' = others[i].INITIAL_ISSUES_PAGE
    /\ combined' = others[i].combined
    /\ data' = others[i].data
    /\ needFirstPageLabelRefetch' = others[i].needFirstPageLabelRefetch
    /\ firstPageSizeUsed' = others[i].firstPageSizeUsed
    /\ leadsQueries' = others[i].leadsQueries
    /\ leadsByTeam' = others[i].leadsByTeam
    /\ tk' = others[i].tk
    /\ completion' = others[i].completion
    /\ teams' = others[i].teams
    /\ error' = others[i].error
    /\ UNCHANGED <<LINEAR_API_KEY, apolloClientInstance, constructed,
                   MAX_PAGES, PAGE_N, upstream, ENABLE_ACCURATE_TRIAGE,
                   CONCURRENCY, now>>

\* refreshCache(), and likewise the debug route: a getApolloClient() outside
\* fetchDashboardData, at any moment between two turns of a fetch or between
\* two fetches. It throws without client and key, and otherwise leaves the
\* client cached; refetchQueries finds no active query, fetchDashboardData
\* having issued none that is watched.
refreshCache ==
    LET client == getApolloClient(apolloClientInstance, LINEAR_API_KEY,
                                  constructed)
    IN  /\ apolloClientInstance' = client.instance
        /\ constructed' = client.constructed
        /\ UNCHANGED <<pc, envVars, combined, data, needFirstPageLabelRefetch,
                       firstPageSizeUsed, leadsQueries, leadsByTeam, tk,
                       completion, teams, error>>

\* The host sets or removes the key, at any moment between two turns;
\* getApolloClient reads process.env at the moment it is called.
SetKey ==
    /\ LINEAR_API_KEY' = ~LINEAR_API_KEY
    /\ UNCHANGED <<pc, apolloClientInstance, constructed, INITIAL_ISSUES_PAGE,
                   MAX_PAGES, PAGE_N, upstream, ENABLE_ACCURATE_TRIAGE,
                   CONCURRENCY, now, combined, data,
                   needFirstPageLabelRefetch, firstPageSizeUsed, leadsQueries,
                   leadsByTeam, tk, completion, teams, error, others>>

NextCalls ==
    \/ fetchDashboardData
    \/ CallFirst
    \/ CallRetry
    \/ CallLight
    \/ CallLeads
    \/ Invoke
    \/ InvokeOverlapping
    \/ \E i \in 1..Len(others) : Switch(i)
    \/ refreshCache
    \/ SetKey

SpecCalls == InitCalls /\ [][NextCalls]_vars

\* calculateTeamMetrics on issues of any state type: the types the two
\* predicates name, other types of the upstream, and the named types in
\* another case; with and without points.
StateTypes ==
    {"started", "completed", "triage", "backlog", "canceled", "Started",
     "COMPLETED"}

StateTypeIssueLists(n) ==
    {[k \in 1..n |-> MetricIssue(k, f[k][1], f[k][2])] :
        f \in [1..n -> {Absent, Some(3)} \X StateTypes]}

InitStateTypes ==
    /\ LINEAR_API_KEY = TRUE
    /\ apolloClientInstance = TRUE
    /\ constructed = 1
    /\ others = <<>>
    /\ INITIAL_ISSUES_PAGE = InitialIssuesPageOf(EnvUnset, EnvUnset)
    /\ MAX_PAGES = MaxPagesOf(EnvUnset, EnvUnset)
    /\ PAGE_N = PageNOf(EnvUnset, EnvUnset)
    /\ upstream = 0
    /\ ENABLE_ACCURATE_TRIAGE = FALSE
    /\ CONCURRENCY = HistoryConcurrencyOf(EnvUnset, EnvUnset)
    /\ now = 20
    /\ needFirstPageLabelRefetch = FALSE
    /\ firstPageSizeUsed = INITIAL_ISSUES_PAGE
    /\ combined = <<>>
    /\ leadsQueries = 1
    /\ leadsByTeam = {}
    /\ \E id \in 1..2, n \in 0..MaxStateIssues :
       \E issues \in StateTypeIssueLists(n) :
            /\ data = TeamsData(<<TeamNode(id, TRUE, NoPage)>>)
            /\ tk = <<[NewTask EXCEPT !.tpc = "metrics", !.cycleSet = TRUE,
                                      !.issues = issues]>>
    /\ completion = <<>>
    /\ pc = "teams"
    /\ teams = <<>>
    /\ error = NoError

NextStateTypes == MetricsReturn

SpecStateTypes == InitStateTypes /\ [][NextStateTypes]_vars

\* The meta block of a team whose issues carry any of a few timestamps, in
\* any order: created at 1 or 5, started never, at 3 or at 9, completed
\* never, at 4 or at 8.
CycleCreatedAt == {1, 5}
CycleStartedAt == {Absent, Some(3), Some(9)}
CycleCompletedAt == {Absent, Some(4), Some(8)}

CycleIssue(k, createdAt, startedAt, completedAt) ==
    [id |-> <<0, 0, k>>, estimate |-> Absent,
     state |-> [type |-> IF completedAt.has THEN "completed"
                         ELSE IF startedAt.has THEN "started" ELSE "backlog"],
     createdAt |-> createdAt, startedAt |-> startedAt,
     completedAt |-> completedAt, labels |-> <<>>]

CycleIssueLists(n) ==
    {[k \in 1..n |-> CycleIssue(k, f[k][1], f[k][2], f[k][3])] :
        f \in [1..n -> CycleCreatedAt \X CycleStartedAt \X CycleCompletedAt]}

InitCycleTime ==
    /\ LINEAR_API_KEY = TRUE
    /\ apolloClientInstance = TRUE
    /\ constructed = 1
    /\ others = <<>>
    /\ INITIAL_ISSUES_PAGE = InitialIssuesPageOf(EnvUnset, EnvUnset)
    /\ MAX_PAGES = MaxPagesOf(EnvUnset, EnvUnset)
    /\ PAGE_N = PageNOf(EnvUnset, EnvUnset)
    /\ upstream = 0
    /\ ENABLE_ACCURATE_TRIAGE = FALSE
    /\ CONCURRENCY = HistoryConcurrencyOf(EnvUnset, EnvUnset)
    /\ now = 20
    /\ needFirstPageLabelRefetch = FALSE
    /\ firstPageSizeUsed = INITIAL_ISSUES_PAGE
    /\ combined = <<>>
    /\ leadsQueries = 1
    /\ leadsByTeam = {}
    /\ \E id \in 1..2, n \in 0..MaxCycleIssues :
       \E issues \in CycleIssueLists(n) :
            /\ data = TeamsData(<<TeamNode(id, TRUE, NoPage)>>)
            /\ tk = <<[NewTask EXCEPT !.tpc = "metrics", !.cycleSet = TRUE,
                                      !.issues = issues]>>
    /\ completion = <<>>
    /\ pc = "teams"
    /\ teams = <<>>
    /\ error = NoError

NextCycleTime == MetricsReturn

SpecCycleTime == InitCycleTime /\ [][NextCycleTime]_vars

\* The label table of a team, and the table of a second run of the callback
\* on the same issues presented in another order: lines 416 to 467 entered
\* with an issue list of any labels. The upstream knows three labels, two of
\* them of the same name; an issue carries a label at most once.
LabelDocs == [id |-> "L3", name |-> Chars(<<"a","p","i">>)]

Labels == {LabelBug, LabelApi, LabelDocs}

\* The label lists an issue may carry: any labels in any order.
LabelLists ==
    UNION {{l \in [1..n -> Labels] :
                \A i, j \in 1..n : l[i].id = l[j].id => i = j}
           : n \in 0..Cardinality(Labels)}

LabelIssue(k, labels) ==
    [id |-> <<0, 0, k>>, estimate |-> Absent, state |-> [type |-> "backlog"],
     createdAt |-> 1, startedAt |-> Absent, completedAt |-> Absent,
     labels |-> labels]

LabelIssueLists(n) ==
    {[k \in 1..n |-> LabelIssue(k, f[k])] : f \in [1..n -> LabelLists]}

InitLabels ==
    /\ LINEAR_API_KEY = TRUE
    /\ apolloClientInstance = TRUE
    /\ constructed = 1
    /\ others = <<>>
    /\ INITIAL_ISSUES_PAGE = InitialIssuesPageOf(EnvUnset, EnvUnset)
    /\ MAX_PAGES = MaxPagesOf(EnvUnset, EnvUnset)
    /\ PAGE_N = PageNOf(EnvUnset, EnvUnset)
    /\ upstream = 0
    /\ ENABLE_ACCURATE_TRIAGE = FALSE
    /\ CONCURRENCY = HistoryConcurrencyOf(EnvUnset, EnvUnset)
    /\ now = 20
    /\ needFirstPageLabelRefetch = FALSE
    /\ firstPageSizeUsed = INITIAL_ISSUES_PAGE
    /\ combined = <<>>
    /\ leadsQueries = 1
    /\ leadsByTeam = {}
    /\ data = TeamsData(<<TeamNode(2, TRUE, NoPage)>>)
    /\ \E n \in 0..MaxLabelIssues :
       \E issues \in LabelIssueLists(n) :
            tk = <<[NewTask EXCEPT !.tpc = "metrics", !.cycleSet = TRUE,
                                   !.issues = issues]>>
    /\ completion = <<>>
    /\ pc = "teams"
    /\ teams = <<>>
    /\ error = NoError

\* s with its first two entries exchanged.
SwapFirst(s) ==
    IF Len(s) < 2 THEN s ELSE <<s[2], s[1]>> \o SubSeq(s, 3, Len(s))

\* s with its first entry moved to the end.
Rotate(s) == IF s = <<>> THEN s ELSE Tail(s) \o <<Head(s)>>

\* The same issues presented again: as they were, the issues in another
\* order, or the labels of the first issue in another order. Every order of
\* the issues and of their labels comes from these by repetition.
Presentations(issues) ==
    {issues, SwapFirst(issues), Rotate(issues)}
    \cup (IF issues = <<>> THEN {}
          ELSE {[issues EXCEPT ![1].labels = SwapFirst(@)],
                [issues EXCEPT ![1].labels = Rotate(@)]})

\* The callback run again on another presentation of the team's issues.
LabelsRerun ==
    /\ pc = "done"
    /\ Len(tk) = 1
    /\ data' = TeamsData(data.nodes \o data.nodes)
    /\ \E again \in Presentations(tk[1].issues) :
        Tasks(Append(tk, TeamComplete(data.nodes[1], leadsByTeam,
                            [NewTask EXCEPT !.tpc = "metrics", !.cycleSet = TRUE,
                                            !.issues = again])),
              completion)
    /\ UNCHANGED <<envVars, apolloClientInstance, constructed, combined,
                   needFirstPageLabelRefetch, firstPageSizeUsed,
                   leadsQueries, leadsByTeam>>

NextLabels == MetricsReturn \/ LabelsRerun

SpecLabels == InitLabels /\ [][NextLabels]_vars

\* computeAccurateTriageAvg request by request: a team with accurate triage
\* enabled and up to MaxHistoryIssues issues of the consistent upstream; each
\* history request is answered on its own, in any order within its batch:
\* the first FreeHistoryAnswers by a rejection, by errors without data, or by
\* a history with a leaving event.
HistoryConcurrencyEnv ==
    {EnvUnset, EnvInt(0), EnvInt(2), EnvHalf(2), EnvInt(50), EnvText}

HistoryAnswers == {"reject", "empty", "mixed"}

InitHistory ==
    /\ LINEAR_API_KEY = TRUE
    /\ apolloClientInstance = TRUE
    /\ constructed = 1
    /\ others = <<>>
    /\ INITIAL_ISSUES_PAGE = InitialIssuesPageOf(EnvUnset, EnvUnset)
    /\ MAX_PAGES = MaxPagesOf(EnvUnset, EnvUnset)
    /\ PAGE_N = PageNOf(EnvUnset, EnvUnset)
    /\ upstream \in 0..MaxHistoryIssues
    /\ ENABLE_ACCURATE_TRIAGE = AccurateTriageOf("true", Undefined)
    /\ \E e \in HistoryConcurrencyEnv :
        CONCURRENCY = HistoryConcurrencyOf(EnvUnset, e)
    /\ now = 20
    /\ needFirstPageLabelRefetch = FALSE
    /\ firstPageSizeUsed = INITIAL_ISSUES_PAGE
    /\ combined = <<>>
    /\ leadsQueries = 1
    /\ leadsByTeam = {}
    /\ data = TeamsData(<<TeamNode(1, TRUE, NoPage)>>)
    /\ tk = <<[NewTask EXCEPT
                !.tpc = "metrics", !.cycleSet = TRUE,
                !.issues = MapIssues([k \in 1..upstream |->
                                        UpstreamNode(1, k, TRUE)])]>>
    /\ completion = <<>>
    /\ pc = "teams"
    /\ teams = <<>>
    /\ error = NoError

HistorySettles == HistoryRequest(1, HistoryAnswers, FreeHistoryAnswers)

NextHistory == MetricsReturn \/ HistorySettles \/ HistoryNoRequest(1)

SpecHistory == InitHistory /\ [][NextHistory]_vars

\* The sample of computeAccurateTriageAvg: a team with accurate triage
\* enabled and no issue, one issue, or as many as the sample takes and up to
\* MaxBeyondSample more; the history requests are answered alternately with
\* a history and a rejection.
SampleConcurrencyEnv == {EnvUnset, EnvInt(10), EnvText}

SampleSizes(beyond) ==
    {0, 1} \cup {MAX_HISTORY_ISSUES + k : k \in 0..beyond}

InitSample ==
    /\ LINEAR_API_KEY = TRUE
    /\ apolloClientInstance = TRUE
    /\ constructed = 1
    /\ others = <<>>
    /\ INITIAL_ISSUES_PAGE = InitialIssuesPageOf(EnvUnset, EnvUnset)
    /\ MAX_PAGES = MaxPagesOf(EnvUnset, EnvUnset)
    /\ PAGE_N = PageNOf(EnvUnset, EnvUnset)
    /\ upstream \in SampleSizes(MaxBeyondSample)
    /\ ENABLE_ACCURATE_TRIAGE = AccurateTriageOf(Undefined, "true")
    /\ \E e \in SampleConcurrencyEnv :
        CONCURRENCY = HistoryConcurrencyOf(e, EnvUnset)
    /\ now = 20
    /\ needFirstPageLabelRefetch = FALSE
    /\ firstPageSizeUsed = INITIAL_ISSUES_PAGE
    /\ combined = <<>>
    /\ leadsQueries = 1
    /\ leadsByTeam = {}
    /\ data = TeamsData(<<TeamNode(1, TRUE, NoPage)>>)
    /\ tk = <<[NewTask EXCEPT
                !.tpc = "metrics", !.cycleSet = TRUE,
                !.issues = MapIssues([k \in 1..upstream |->
                                        UpstreamNode(1, k, TRUE)])]>>
    /\ completion = <<>>
    /\ pc = "teams"
    /\ teams = <<>>
    /\ error = NoError

SampleAnswers == {"mixed"}

SampleSettles == HistoryRequest(1, SampleAnswers, 0)

NextSample == MetricsReturn \/ SampleSettles \/ HistoryNoRequest(1)

SpecSample == InitSample /\ [][NextSample]_vars

\* The fan-out with accurate triage: after a combined query that returned up
\* to MaxFanOutTeams teams, each with an active cycle whose only page holds
\* up to MaxFanOutIssues issues, the callbacks of the teams run side by side,
\* and every history request is answered on its own.
FanOutConcurrencyEnv == {EnvInt(1), EnvInt(2), EnvUnset}

FanOutPage(id, n) ==
    Page([k \in 1..n |-> UpstreamNode(id, k, TRUE)], TRUE, FALSE, Undefined)

FanOutTeamLists(maxTeams, maxIssues) ==
    UNION {
        { [n \in 1..len |-> TeamNode(TeamIdAt(len, n), TRUE,
                                     FanOutPage(TeamIdAt(len, n), size[n]))] :
            size \in [1..len -> 0..maxIssues] }
        : len \in 1..maxTeams }

FanOutLeads == {Result(ErrsNone, {1})}

InitFanOut ==
    /\ LINEAR_API_KEY = TRUE
    /\ apolloClientInstance = TRUE
    /\ constructed = 1
    /\ others = <<>>
    /\ INITIAL_ISSUES_PAGE = InitialIssuesPageOf(EnvUnset, EnvUnset)
    /\ MAX_PAGES = MaxPagesOf(EnvUnset, EnvUnset)
    /\ PAGE_N = PageNOf(EnvUnset, EnvUnset)
    /\ upstream = 0
    /\ ENABLE_ACCURATE_TRIAGE = AccurateTriageOf("true", Undefined)
    /\ \E e \in FanOutConcurrencyEnv :
        CONCURRENCY = HistoryConcurrencyOf(EnvUnset, e)
    /\ now = 20
    /\ needFirstPageLabelRefetch = FALSE
    /\ firstPageSizeUsed = INITIAL_ISSUES_PAGE
    /\ leadsQueries = 0
    /\ leadsByTeam = {}
    /\ \E list \in FanOutTeamLists(MaxFanOutTeams, MaxFanOutIssues) :
        data = TeamsData(list)
    /\ combined = <<CombinedEntry(TRUE, INITIAL_ISSUES_PAGE,
                                  Result(ErrsNone, data))>>
    /\ tk = <<>>
    /\ completion = <<>>
    /\ pc = "leads"
    /\ teams = <<>>
    /\ error = NoError

FanOutStart == LeadsOn(FanOutLeads)

FanOutSettles(t) == HistoryRequest(t, SampleAnswers, 0)

NextFanOut == FanOutStart \/ \E t \in 1..Len(tk) : FanOutSettles(t)

SpecFanOut == InitFanOut /\ [][NextFanOut]_vars

\* Two fetches that overlap, whose combined query returned the same two
\* teams, in the same mode; each awaits its own leads query and runs its own
\* two callbacks, task 1 for the first team and task 2 for the second. The
\* requests for the cycle of the first team are answered alike in both
\* fetches: the upstream holds one answer to its label re-fetch and one to
\* each of its page requests, any answers, and gives them to either fetch.
\* The requests for the second team are answered in any way in either
\* fetch, and the requests of the two fetches are answered one by one in
\* any order.
IsoTeamLists(withLabels) ==
    {<<TeamNode(2, TRUE, own), other>> :
        own \in DashFirstPages(2, withLabels),
        other \in {TeamNode(1, FALSE, NoPage)}
                  \cup {TeamNode(1, TRUE, p) : p \in DashFirstPages(1, withLabels)}}

\* Follow-up pages and their failures in SpecIsolation: a page that
\* announces another, a last page that comes with errors, a rejection.
IsoPageResponses(c, p) ==
    {Result(ErrsNone, Page(PageNodes(c, p, 1, TRUE), TRUE, TRUE, "b")),
     Result(ErrsOther, Page(PageNodes(c, p, 2, TRUE), TRUE, FALSE, Undefined)),
     Throw(ThrowNetwork)}

\* The upstream's answers to the page requests of the first team's cycle.
IsoOwnPages(maxReq) ==
    {f \in [1..maxReq -> UNION {IsoPageResponses(2, p) : p \in 1..maxReq}] :
        \A p \in 1..maxReq : f[p] \in IsoPageResponses(2, p)}

InitIsolation ==
    /\ LINEAR_API_KEY = TRUE
    /\ apolloClientInstance = TRUE
    /\ constructed = 1
    /\ INITIAL_ISSUES_PAGE = InitialIssuesPageOf(EnvUnset, EnvUnset)
    /\ MAX_PAGES = MaxPagesOf(EnvUnset, EnvUnset)
    /\ PAGE_N = PageNOf(EnvUnset, EnvUnset)
    /\ ENABLE_ACCURATE_TRIAGE = FALSE
    /\ CONCURRENCY = HistoryConcurrencyOf(EnvUnset, EnvUnset)
    /\ now = 20
    /\ needFirstPageLabelRefetch \in BOOLEAN
    /\ \E refetch \in (IF needFirstPageLabelRefetch THEN RefetchResponses(2)
                        ELSE {Throw(ThrowNetwork)}),
          pages \in IsoOwnPages(IsoMaxReq) :
        upstream = [refetch |-> refetch, pages |-> pages]
    /\ firstPageSizeUsed = IF needFirstPageLabelRefetch THEN Num(25)
                           ELSE INITIAL_ISSUES_PAGE
    /\ \E list \in IsoTeamLists(~needFirstPageLabelRefetch) :
        data = TeamsData(list)
    /\ combined = <<>>
    /\ leadsQueries = 0
    /\ leadsByTeam = {}
    /\ tk = <<>>
    /\ completion = <<>>
    /\ pc = "leads"
    /\ teams = <<>>
    /\ error = NoError
    /\ others = <<Locals>>

IsoStart == LeadsOn(FanOutLeads)

IsoOwnRefetch(t) == TeamRefetch(t, {upstream.refetch})

IsoOwnPage(t) ==
    PageFetch(t,
        IF Len(tk[t].reqs) < IsoMaxReq
        THEN {upstream.pages[Len(tk[t].reqs) + 1]} ELSE {},
        IsoMaxReq)

IsoOtherRefetch(t) == TeamRefetch(t, RefetchResponses(data.nodes[t].id))

IsoOtherPage(t) ==
    PageFetch(t, IsoPageResponses(data.nodes[t].id, Len(tk[t].reqs) + 1),
              IsoMaxReq)

NextIsolation ==
    \/ IsoStart
    \/ Len(tk) = 2 /\ IsoOwnRefetch(1)
    \/ Len(tk) = 2 /\ IsoOwnPage(1)
    \/ Len(tk) = 2 /\ IsoOtherRefetch(2)
    \/ Len(tk) = 2 /\ IsoOtherPage(2)
    \/ Switch(1)

SpecIsolation == InitIsolation /\ [][NextIsolation]_vars

\* The triage time in accurate mode: a team with up to MaxTriageIssues
\* issues created, started and completed at any of a few times, in any
\* order; every history request resolves with a history that holds no event
\* leaving triage or backlog.
TriageAnswers == {"quiet"}

InitTriage ==
    /\ LINEAR_API_KEY = TRUE
    /\ apolloClientInstance = TRUE
    /\ constructed = 1
    /\ others = <<>>
    /\ INITIAL_ISSUES_PAGE = InitialIssuesPageOf(EnvUnset, EnvUnset)
    /\ MAX_PAGES = MaxPagesOf(EnvUnset, EnvUnset)
    /\ PAGE_N = PageNOf(EnvUnset, EnvUnset)
    /\ upstream = 0
    /\ ENABLE_ACCURATE_TRIAGE = AccurateTriageOf("true", "true")
    /\ CONCURRENCY = HistoryConcurrencyOf(EnvUnset, EnvUnset)
    /\ now = 20
    /\ needFirstPageLabelRefetch = FALSE
    /\ firstPageSizeUsed = INITIAL_ISSUES_PAGE
    /\ combined = <<>>
    /\ leadsQueries = 1
    /\ leadsByTeam = {}
    /\ \E n \in 0..MaxTriageIssues :
       \E issues \in CycleIssueLists(n) :
            /\ data = TeamsData(<<TeamNode(1, TRUE, NoPage)>>)
            /\ tk = <<[NewTask EXCEPT !.tpc = "metrics", !.cycleSet = TRUE,
                                      !.issues = issues]>>
    /\ completion = <<>>
    /\ pc = "teams"
    /\ teams = <<>>
    /\ error = NoError

TriageSettles == HistoryRequest(1, TriageAnswers, MAX_HISTORY_ISSUES)

NextTriage == MetricsReturn \/ TriageSettles

SpecTriage == InitTriage /\ [][NextTriage]_vars

\* ------------------------------------------------------------- claims

\* The nodes of the first page the pagination of task t started from.
FirstNodes(t) == data.nodes[t].issues.nodes

\* The last follow-up response of a task and the cursor it was requested with.
LastAfter(st) == st.reqs[Len(st.reqs)]

\* C1: the combined queries of a fetch are at most three, labeled, labeled,
\* light, in that order, and each one after the first is issued only when the
\* attempt before it ended in a complexity error; so the light query comes
\* only after two labeled attempts that both ended in a complexity error, and
\* nothing follows an attempt that succeeded.
C1_LadderOrder ==
    /\ Len(combined) <= 3
    /\ \A i \in 1..Len(combined) :
        /\ combined[i].withLabels = (i <= 2)
        /\ i > 1 => combined[i - 1].reported = "complexity"

\* The light query succeeded after two complexity errors and the fetch returned.
C1_Witness ==
    /\ pc = "done"
    /\ Len(combined) = 3
    /\ ~combined[3].withLabels
    /\ combined[3].reported = "none"

\* C2: a combined attempt that reports an error that is not a complexity
\* error, thrown or in the response's errors list, makes fetchDashboardData
\* throw, and no query of any kind follows it.
C2_NonComplexityErrorIsFatal ==
    \A i \in 1..Len(combined) :
        combined[i].reported = "other" =>
            /\ pc = "thrown"
            /\ i = Len(combined)
            /\ leadsQueries = 0
            /\ tk = <<>>

\* C3: once the combined query has returned a team list, fetchDashboardData
\* never throws, whatever the leads query, the label re-fetches, the page
\* requests and the history requests do; while it has not returned some task still awaits a request,
\* and when it returns it returns one entry per team.
C3_NoThrowAfterCombined ==
    data.hasTeams =>
        /\ pc \in {"leads", "teams", "done"}
        /\ pc = "teams" =>
            \E t \in 1..Len(tk) : tk[t].tpc \in {"refetch", "page", "history"}
        /\ pc = "done" => Len(teams) = Len(data.nodes)

\* The fetch returned although a label re-fetch threw for one team, and a
\* page request threw and history requests rejected for another.
C3_Witness ==
    /\ pc = "done"
    /\ \E t \in 1..Len(tk) : tk[t].refetchThrew
    /\ \E t \in 1..Len(tk) : tk[t].last.thrown /\ tk[t].historyRejected > 0

\* C4: the returned list has exactly one TeamMetrics per team node of the
\* combined query, in the order of the combined query, whatever the order in
\* which the tasks completed.
C4_TeamsInQueryOrder ==
    pc = "done" =>
        /\ Len(teams) = Len(data.nodes)
        /\ \A n \in 1..Len(teams) : teams[n].base.team = data.nodes[n].id

\* Two teams, the second of which completed first.
C4_Witness ==
    /\ pc = "done"
    /\ Len(teams) = 2
    /\ completion = <<2, 1>>

\* C5: a team whose issue fetch failed (the label re-fetch threw into the
\* team's try) is emitted with its cycle set, an empty issue list, scope,
\* started, completed and all percentages 0 and an empty label table, and the
\* fetch does not throw.
C5_FailedTeamIsEmittedEmpty ==
    \A t \in 1..Len(tk) :
        tk[t].refetchThrew =>
            /\ pc # "thrown"
            /\ tk[t].tpc = "done"
            /\ tk[t].issues = <<>>
            /\ LET m == tk[t].out[1] IN
                /\ m.base.cycle = TRUE
                /\ m.base.scope = 0 /\ m.base.started = 0 /\ m.base.completed = 0
                /\ m.base.scopePercentage = 0
                /\ m.base.startedPercentage = 0
                /\ m.base.completedPercentage = 0
                /\ m.labelCounts = <<>>
                /\ pc = "done" => teams[t] = m

\* The fetch returned with a team whose re-fetch threw although the light
\* query had returned issues for it.
C5_Witness ==
    /\ pc = "done"
    /\ \E t \in 1..Len(tk) : tk[t].refetchThrew /\ Len(FirstNodes(t)) > 0

\* C6: MAX_PAGES is the configured value clamped to [1,1000], and the
\* pagination issues a follow-up page request only while fewer than MAX_PAGES
\* were issued.
C6_AtMostMaxPagesRequests ==
    \A t \in 1..Len(tk) : Len(tk[t].reqs) <= 1000

\* C7: the list fetchAllCycleIssues has collected is the first page's nodes
\* followed by the nodes of every follow-up page fetched so far without a
\* failure, in request order, and the issues of the team are that list.
C7_AllIsConcatenation ==
    \A t \in 1..Len(tk) :
        /\ tk[t].all = FirstNodes(t) \o Flatten(tk[t].served)
        /\ Len(tk[t].all) = Len(FirstNodes(t)) + Len(Flatten(tk[t].served))
        /\ tk[t].tpc = "done" => tk[t].issues = MapIssues(tk[t].all)

\* A pagination that returned after two follow-up pages with nodes.
C7_Witness ==
    \E t \in 1..Len(tk) :
        /\ tk[t].tpc = "done"
        /\ Len(tk[t].served) = 2
        /\ Len(tk[t].served[1]) > 0 /\ Len(tk[t].served[2]) > 0
        /\ Len(FirstNodes(t)) > 0

\* C8: when a follow-up page returns an end cursor identical to the cursor it
\* was requested with, no further page request is issued and the issues
\* collected so far are returned.
C8_StallGuardStops ==
    \A t \in 1..Len(tk) :
        LET st == tk[t] IN
        ( /\ Len(st.reqs) > 0
          /\ ~st.last.thrown
          /\ st.last.data.present
          /\ st.last.data.hasPageInfo
          /\ st.last.data.endCursor # Undefined
          /\ st.last.data.endCursor = LastAfter(st) )
        => /\ st.tpc = "done"
           /\ st.issues = MapIssues(FirstNodes(t) \o Flatten(st.served))

\* C9: when a follow-up page request reports a complexity error, in the
\* errors list or in a thrown error's payload, the pagination stops without
\* raising and the team's issues are the first page and every page fetched
\* before the error.
C9_ComplexityKeepsPartial ==
    \A t \in 1..Len(tk) :
        LET st == tk[t] IN
        (Len(st.reqs) > 0 /\ ReportsComplexity(st.last)) =>
            /\ st.tpc = "done"
            /\ pc = "done"
            /\ st.issues = MapIssues(FirstNodes(t) \o Flatten(st.served))
            /\ teams[t].base.scope = st.out[1].base.scope

\* The second page request threw an error with a complexity payload after a
\* first follow-up page had been collected.
C9_Witness ==
    \E t \in 1..Len(tk) :
        /\ Len(tk[t].reqs) = 2
        /\ tk[t].last.thrown
        /\ ReportsComplexity(tk[t].last)
        /\ Len(tk[t].served) = 1 /\ Len(tk[t].served[1]) > 0
        /\ Len(tk[t].issues) = Len(FirstNodes(t)) + Len(tk[t].served[1])

\* C10: any error reported for a follow-up page request, thrown or in the
\* errors list, complexity or not, stops the pagination: no further page
\* request is issued and the issues collected before the error are returned.
C10_AnyPageErrorStops ==
    \A t \in 1..Len(tk) :
        LET st == tk[t] IN
        (Len(st.reqs) > 0 /\ ReportsError(st.last)) =>
            /\ st.tpc = "done"
            /\ pc = "done"

\* C11: the re-fetch of page one with labels is issued exactly when the fetch
\* fell back to the light query (three combined queries): then once for every
\* team with an active cycle, before any follow-up page request of that cycle,
\* and never for a team without a cycle; after a labeled attempt succeeded it
\* is issued for no team.
C11_RefetchIffLight ==
    /\ data.hasTeams => needFirstPageLabelRefetch = (Len(combined) = 3)
    /\ \A t \in 1..Len(tk) :
        LET st == tk[t]
            due == Len(combined) = 3 /\ data.nodes[t].hasActiveCycle
        IN  /\ st.tpc = "refetch" => (due /\ st.refetches = 0 /\ st.reqs = <<>>)
            /\ st.tpc # "refetch" => st.refetches = (IF due THEN 1 ELSE 0)

\* After the light query a team's page one was re-fetched, then a follow-up
\* page was requested, while another team has no cycle.
C11_Witness ==
    /\ pc = "done"
    /\ Len(combined) = 3
    /\ \E t \in 1..Len(tk) : tk[t].refetches = 1 /\ Len(tk[t].reqs) > 0
    /\ \E t \in 1..Len(tk) : ~data.nodes[t].hasActiveCycle

\* The pagination of a task ended at the MAX_PAGES guard with pages left.
CutByMaxPages(st) == st.hasNext /\ GreaterEq(Num(st.pageCounter), MAX_PAGES)

\* C12 as stated: against the same upstream and with every request
\* succeeding, the run that fell back to the light query and the run whose
\* labeled query succeeded return the same issues with the same labels, the
\* same metrics and the same label table for the team.
C12_LightEqualsDirect ==
    pc = "done" =>
        /\ tk[1].issues = tk[2].issues
        /\ teams[1] = teams[2]

\* C12 amended: the two runs return the same issues, labels, metrics and
\* label table whenever neither pagination was ended by the MAX_PAGES guard
\* with pages left.
C12_LightEqualsDirectUnlessCut ==
    (pc = "done" /\ ~CutByMaxPages(tk[1]) /\ ~CutByMaxPages(tk[2])) =>
        /\ tk[1].issues = tk[2].issues
        /\ teams[1] = teams[2]

\* Both runs returned the whole cycle, labels included, the direct one from
\* its first page alone and the light one after a re-fetch and a follow-up
\* page.
C12_Witness ==
    /\ pc = "done"
    /\ ~CutByMaxPages(tk[1]) /\ ~CutByMaxPages(tk[2])
    /\ Len(tk[1].reqs) = 0
    /\ tk[2].refetches = 1 /\ Len(tk[2].reqs) = 1
    /\ Len(tk[2].issues) = upstream
    /\ teams[2].labelCounts # <<>>

\* The number of issues of a list whose state type is the given one.
CountOfType(issues, type) ==
    Cardinality({i \in 1..Len(issues) : issues[i].state.type = type})

\* C13: for a team that does not use estimation (estimation type undefined
\* or 'notUsed'), scope is the number of issues, started the number of issues
\* of state type 'started' and completed the number of state type
\* 'completed', whatever the estimates are.
C13_CountsIgnoreEstimates ==
    \A t \in 1..Len(tk) :
        (tk[t].tpc = "done"
         /\ data.nodes[t].issueEstimationType \in {Undefined, "notUsed"}) =>
            LET m == tk[t].out[1].base
                issues == tk[t].issues
            IN  /\ ~m.usesEstimation
                /\ m.scope = Len(issues)
                /\ m.started = CountOfType(issues, "started")
                /\ m.completed = CountOfType(issues, "completed")

\* A 'notUsed' team with three issues, one started with a positive estimate,
\* one completed with a negative estimate and one without an estimate.
C13_Witness ==
    /\ tk[1].tpc = "done"
    /\ data.nodes[1].issueEstimationType = "notUsed"
    /\ Len(tk[1].issues) = 3
    /\ \E i \in 1..3 : /\ tk[1].issues[i].state.type = "started"
                       /\ tk[1].issues[i].estimate = Some(23)
    /\ \E i \in 1..3 : /\ tk[1].issues[i].state.type = "completed"
                       /\ tk[1].issues[i].estimate.v < 0
    /\ \E i \in 1..3 : ~tk[1].issues[i].estimate.has

\* The points of an issue list: the positive estimates of the issues whose
\* state type is one of the given ones.
PointsOfTypes(issues, types) ==
    SumSeq([i \in 1..Len(issues) |->
              IF /\ issues[i].estimate.has
                 /\ issues[i].estimate.v > 0
                 /\ issues[i].state.type \in types
              THEN issues[i].estimate.v ELSE 0])

\* C14: for a team that uses estimation, scope is the sum of the estimates
\* that are greater than 0, started and completed are that sum over the
\* issues of state type 'started' and 'completed'; an issue whose estimate
\* is absent or 0 adds nothing to any of the three.
C14_SumsOfPositiveEstimates ==
    \A t \in 1..Len(tk) :
        (tk[t].tpc = "done"
         /\ data.nodes[t].issueEstimationType \notin {Undefined, "notUsed"}) =>
            LET m == tk[t].out[1].base
                issues == tk[t].issues
            IN  /\ m.usesEstimation
                /\ m.scope = PointsOfTypes(issues, MetricStateTypes)
                /\ m.started = PointsOfTypes(issues, {"started"})
                /\ m.completed = PointsOfTypes(issues, {"completed"})

\* An estimating team with a started issue of 23 points, a started issue
\* without estimate and a completed issue of estimate 0.
C14_Witness ==
    /\ tk[1].tpc = "done"
    /\ data.nodes[1].issueEstimationType = "fibonacci"
    /\ Len(tk[1].issues) = 3
    /\ \E i \in 1..3 : /\ tk[1].issues[i].state.type = "started"
                       /\ tk[1].issues[i].estimate = Some(23)
    /\ \E i \in 1..3 : /\ tk[1].issues[i].state.type = "started"
                       /\ ~tk[1].issues[i].estimate.has
    /\ \E i \in 1..3 : /\ tk[1].issues[i].state.type = "completed"
                       /\ tk[1].issues[i].estimate = Some(0)
    /\ tk[1].out[1].base.scope = 23

\* 100 * part / scope rounded to the nearest integer, halves up.
HalfUpPercent(part, scope) == (200 * part + scope) \div (2 * scope)

\* C15: when scope > 0, startedPercentage is 100 * started / scope rounded
\* to the nearest integer with halves up, and completedPercentage likewise;
\* when scope = 0 both are 0.
C15_PercentagesRoundHalfUp ==
    \A t \in 1..Len(tk) :
        tk[t].tpc = "done" =>
            LET m == tk[t].out[1].base
            IN  IF m.scope > 0
                THEN /\ m.startedPercentage = HalfUpPercent(m.started, m.scope)
                     /\ m.completedPercentage = HalfUpPercent(m.completed, m.scope)
                ELSE m.startedPercentage = 0 /\ m.completedPercentage = 0

\* C16: scopePercentage is 100 exactly when scope > 0 and 0 otherwise,
\* whatever started and completed are; a team without active cycle, and a
\* team left without issues, has scopePercentage 0.
C16_ScopePercentage ==
    \A t \in 1..Len(tk) :
        tk[t].tpc = "done" =>
            LET m == tk[t].out[1].base
                counted == IF data.nodes[t].issueEstimationType
                                \in {Undefined, "notUsed"}
                           THEN Len(tk[t].issues)
                           ELSE PointsOfTypes(tk[t].issues, MetricStateTypes)
            IN  /\ m.scopePercentage = (IF counted > 0 THEN 100 ELSE 0)
                /\ m.scopePercentage = (IF m.scope > 0 THEN 100 ELSE 0)
                /\ (~tk[t].cycleSet \/ tk[t].issues = <<>>) => m.scopePercentage = 0

\* An estimating team whose issues carry no points and are all neither
\* started nor completed has scopePercentage 0; so has the team without cycle.
C16_Witness ==
    /\ tk[1].tpc = "done"
    /\ \/ /\ data.nodes[1].issueEstimationType = "fibonacci"
          /\ Len(tk[1].issues) = 2
          /\ tk[1].out[1].base.scope = 0
          /\ tk[1].out[1].base.scopePercentage = 0
       \/ /\ ~tk[1].cycleSet
          /\ tk[1].out[1].base.scopePercentage = 0

\* C17: for every team and every issue list, negative and absent estimates
\* included, calculateTeamMetrics returns, and scope, started and completed
\* are non-negative and the three percentages are integers in [0,100].
C17_MetricsInRange ==
    /\ pc = "done" => \A t \in 1..Len(tk) : tk[t].tpc = "done"
    /\ \A t \in 1..Len(tk) :
        tk[t].tpc = "done" =>
            LET m == tk[t].out[1].base
            IN  /\ m.scope >= 0 /\ m.started >= 0 /\ m.completed >= 0
                /\ m.scopePercentage \in 0..100
                /\ m.startedPercentage \in 0..100
                /\ m.completedPercentage \in 0..100

\* An estimating team with a started issue of negative estimate next to a
\* completed issue of 17 points.
C17_Witness ==
    /\ tk[1].tpc = "done"
    /\ data.nodes[1].issueEstimationType = "fibonacci"
    /\ \E i \in 1..Len(tk[1].issues) :
            /\ tk[1].issues[i].state.type = "started"
            /\ tk[1].issues[i].estimate.v < 0
    /\ \E i \in 1..Len(tk[1].issues) :
            /\ tk[1].issues[i].state.type = "completed"
            /\ tk[1].issues[i].estimate = Some(17)
    /\ tk[1].out[1].base.completedPercentage = 100

\* Whether an errors list holds a message that names complexity.
ListSaysComplex(errors) ==
    \E i \in 1..Len(errors) :
        errors[i].hasMessage /\ errors[i].message \in ComplexMessages

\* Whether a response of the upstream carries, in one of the three places, a
\* message that names complexity.
ResponseSaysComplex(resp) ==
    IF resp.thrown
    THEN \/ resp.err.message \in ComplexMessages
         \/ /\ resp.err.hasNetworkError
            /\ resp.err.hasResultErrors
            /\ ListSaysComplex(resp.err.resultErrors)
    ELSE ListSaysComplex(resp.errors)

\* C18: an error is taken for a complexity error, so that the ladder moves
\* to its next step, exactly when a message in the errors list of the
\* response, in the errors list of the network-error payload or of the
\* thrown error itself holds 'complex' in some case.
C18_ComplexityIffMessage ==
    /\ Len(combined) = 1 => (pc = "retry" <=> ResponseSaysComplex(upstream))
    /\ Len(combined) = 2 => (pc = "light" <=> ResponseSaysComplex(upstream))
    /\ \A i \in 1..Len(combined) :
        combined[i].reported = "complexity" <=> ResponseSaysComplex(upstream)

\* The upstream throws an error whose own message is plain and whose
\* network-error payload lists a plain message and one in mixed case; both
\* attempts with labels were taken for complexity errors.
C18_Witness ==
    /\ Len(combined) = 2
    /\ pc = "light"
    /\ upstream.thrown
    /\ upstream.err.message = MsgNetwork
    /\ upstream.err.hasResultErrors
    /\ upstream.err.resultErrors = <<ErrMsg(MsgOther), ErrMsg(MsgMixedCase)>>

\* A team's TeamMetrics without its lead.
WithoutLead(m) == [m EXCEPT !.meta.lead = FALSE]

\* C19: the run whose leads query failed does not fail for it; it emits the
\* team without lead, and with every other field equal to what the run
\* whose leads query answered emits for the team.
C19_LeadsFailureOnlyDropsLead ==
    /\ pc # "thrown"
    /\ (Len(tk) >= 1 /\ tk[1].tpc = "done") => ~tk[1].out[1].meta.lead
    /\ (Len(tk) = 2 /\ pc = "done") =>
            /\ WithoutLead(teams[1]) = WithoutLead(teams[2])
            /\ teams[1] = tk[1].out[1]
            /\ tk[1].issues = tk[2].issues

\* Both runs have returned; the team has issues beyond its first page and a
\* lead, which only the second run shows.
C19_Witness ==
    /\ pc = "done"
    /\ Len(tk) = 2
    /\ Len(tk[1].reqs) > 0
    /\ Len(tk[1].issues) = upstream
    /\ ~teams[1].meta.lead
    /\ teams[2].meta.lead
    /\ teams[1].meta.avgCycleTimeMs.has

\* C20: a call invoked while the API key is absent throws, and issues no
\* query: the step that runs an invocation from its start with the key
\* absent at that moment ends in the thrown error, with no combined query in
\* flight or answered, no leads query and no task of a team; and a call
\* that has thrown for the missing key has issued none of them.
C20_NoKeyThrowsWithoutQuery ==
    /\ [][(pc = "start" /\ ~LINEAR_API_KEY /\ pc' # "start" /\ others' = others)
            => /\ pc' = "thrown"
               /\ error' = MissingKeyError
               /\ combined' = <<>>
               /\ leadsQueries' = 0
               /\ tk' = <<>>]_vars
    /\ []((pc = "thrown" /\ error = MissingKeyError)
            => (combined = <<>> /\ leadsQueries = 0 /\ tk = <<>>))

\* The HTTP status the upstream answered with, 0 when none is known.
UpstreamStatus(resp) ==
    IF resp.thrown /\ resp.err.hasNetworkError THEN resp.err.statusCode ELSE 0

\* The first error message the upstream sent: of the errors list of the
\* response, of the errors list of the network-error payload, or else the
\* message of the error the transport threw.
FirstUpstreamMessage(resp) ==
    IF ~resp.thrown THEN MessageOr(resp.errors[1])
    ELSE IF resp.err.hasNetworkError /\ resp.err.hasResultErrors
            /\ Len(resp.err.resultErrors) > 0
    THEN MessageOr(resp.err.resultErrors[1])
    ELSE resp.err.message

\* Whether the upstream sent an error message at all.
HasUpstreamMessage(resp) ==
    IF ~resp.thrown THEN Len(resp.errors) > 0 /\ resp.errors[1].hasMessage
    ELSE TRUE

\* An error carries a message as its own or as the first of its payload.
CarriesMessage(e, m) ==
    \/ e.message = m
    \/ /\ e.hasNetworkError /\ e.hasResultErrors
       /\ Len(e.resultErrors) > 0
       /\ MessageOr(e.resultErrors[1]) = m

\* C21: when fetchDashboardData throws because a combined attempt failed
\* (an error that is no complexity error, or the light query failing too),
\* the thrown error carries the upstream's HTTP status when there is one and
\* the first error message the upstream sent.
C21_FatalErrorCarriesUpstream ==
    (pc = "thrown" /\ Len(combined) >= 1 /\ ReportsError(upstream)) =>
        /\ UpstreamStatus(upstream) # 0 =>
                (error.hasNetworkError /\ error.statusCode = UpstreamStatus(upstream))
        /\ HasUpstreamMessage(upstream) =>
                CarriesMessage(error, FirstUpstreamMessage(upstream))

\* The attachments of a label id: the pairs of an issue and a position in its
\* label list that hold the id.
Attachments(issues, id) ==
    {p \in (1..Len(issues)) \X (1..Cardinality(Labels)) :
        /\ p[2] <= Len(issues[p[1]].labels)
        /\ issues[p[1]].labels[p[2]].id = id}

\* C22: the label table of a team holds, for every label attached to one of
\* the team's issues, exactly one entry, whose count is the number of the
\* label's attachments; it holds no entry of count 0 and none for a label
\* that is attached nowhere; its counts add up to the number of attachments
\* of all issues.
C22_LabelCountsAreAttachments ==
    \A t \in 1..Len(tk) :
        tk[t].tpc = "done" =>
            LET table == tk[t].out[1].labelCounts
                issues == tk[t].issues
            IN  /\ \A l \in Labels :
                    Attachments(issues, l.id) # {} =>
                        /\ Cardinality({k \in 1..Len(table) : table[k].id = l.id}) = 1
                        /\ \A k \in 1..Len(table) :
                            table[k].id = l.id =>
                                table[k].count = Cardinality(Attachments(issues, l.id))
                /\ \A k \in 1..Len(table) :
                    /\ table[k].count > 0
                    /\ Attachments(issues, table[k].id) # {}
                /\ SumSeq([k \in 1..Len(table) |-> table[k].count])
                   = SumSeq([i \in 1..Len(issues) |-> Len(issues[i].labels)])

\* Three issues: one label on all three, one on two of them, one on a single
\* issue; the table counts 3, 2 and 1.
C22_Witness ==
    /\ tk[1].tpc = "done"
    /\ Len(tk[1].issues) = 3
    /\ Len(tk[1].out[1].labelCounts) = 3
    /\ tk[1].out[1].labelCounts[1].count = 3
    /\ tk[1].out[1].labelCounts[2].count = 2
    /\ tk[1].out[1].labelCounts[3].count = 1

\* Descending count, and ascending name among equal counts.
SortedTable(table) ==
    \A k \in 1..(Len(table) - 1) :
        \/ table[k].count > table[k + 1].count
        \/ /\ table[k].count = table[k + 1].count
           /\ localeCompare(table[k].name, table[k + 1].name) <= 0

\* C23: the label table is sorted by descending count, ties by ascending
\* name, and the callback run again on the same issues, presented in the
\* same or in another order of the issues or of their labels, returns the
\* identical table.
C23_LabelTableSortedAndStable ==
    /\ \A t \in 1..Len(tk) :
        tk[t].tpc = "done" => SortedTable(tk[t].out[1].labelCounts)
    /\ (Len(tk) = 2 /\ pc = "done") =>
            teams[1].labelCounts = teams[2].labelCounts

\* The positions in the sample of the requests of batch b.
BatchPositions(st, b) ==
    {ChunkOffset(st.chunks, b) + j : j \in 1..Len(st.chunks[b])}

\* The positions in the sample of the requests that were answered.
Answered(st) == {a[1] : a \in st.answers}

\* C24: with accurate triage, the history requests of a team in flight are
\* never more than the history concurrency, which lies in [1,10] (and there
\* is none at all when the concurrency is no number); the requests in flight
\* belong to one batch, every request of the batches before it has settled,
\* and no request of a batch after it has been issued.
C24_HistoryBatchesBounded ==
    \A t \in 1..Len(tk) :
        LET st == tk[t] IN
        /\ Cardinality(st.inflight) <= 10
        /\ IF CONCURRENCY.nan THEN st.inflight = {}
           ELSE /\ Twice(CONCURRENCY) \in 2..20
                /\ 2 * Cardinality(st.inflight) <= Twice(CONCURRENCY)
        /\ st.tpc = "history" =>
            /\ st.inflight \subseteq BatchPositions(st, st.batch)
            /\ Answered(st) =
                    (1..(ChunkOffset(st.chunks, st.batch)
                         + Len(st.chunks[st.batch]))) \ st.inflight
        /\ st.tpc # "history" => st.inflight = {}

\* The duration a successful history request yields for its issue: the time
\* from the issue's creation to the first event that leaves triage or
\* backlog, or without such an event to its start; 0 for none.
YieldOf(iss, resp) ==
    LET k == Leaving(resp.data) IN
    IF k > 0 THEN Max0(resp.data[k].createdAt - iss.createdAt)
    ELSE IF iss.startedAt.has THEN Max0(iss.startedAt.v - iss.createdAt)
    ELSE 0

\* The durations of a task's issues whose history request succeeded, by
\* position in the sample; 0 where the request failed or yielded nothing.
YieldsOf(st) ==
    [j \in 1..Len(st.issues) |->
        IF \E a \in st.answers : a[1] = j /\ ~a[2].thrown
        THEN YieldOf(st.issues[j],
                     (CHOOSE a \in st.answers : a[1] = j /\ ~a[2].thrown)[2])
        ELSE 0]

\* C25: with accurate triage, a history request that fails for one issue
\* fails neither the team nor the fetch; every batch is still processed, so
\* that every sampled issue gets its request; and the triage time the team
\* is emitted with is the rounded mean of exactly the durations yielded by
\* the issues whose request succeeded (the approximate triage time when
\* there is no such duration).
C25_HistoryFailureIsolated ==
    /\ pc # "thrown"
    /\ \A t \in 1..Len(tk) :
        LET st == tk[t] IN
        /\ st.tpc # "rejected"
        /\ (st.tpc = "done" /\ ~CONCURRENCY.nan) =>
                Answered(st) = 1..Len(st.issues)
        /\ st.tpc = "done" =>
            LET yields == YieldsOf(st)
                count == Cardinality({j \in 1..Len(yields) : yields[j] > 0})
            IN  st.out[1].meta.avgTriageTimeMs =
                    IF count > 0 THEN Some(RoundDiv(SumSeq(yields), count))
                    ELSE avgTriageTimeMs(st.issues)

\* At concurrency 2 and with five issues, the first request rejected, the
\* second yielded its start time, a request of the last batch yielded a
\* leaving event, and the team is emitted with their mean.
C25_Witness ==
    /\ pc = "done"
    /\ CONCURRENCY = Num(2)
    /\ Len(tk[1].issues) = 5
    /\ tk[1].historyRejected > 0
    /\ \E a \in tk[1].answers : a[1] = 1 /\ a[2].thrown
    /\ \E a \in tk[1].answers : a[1] = 2 /\ ~a[2].thrown /\ a[2].data = <<>>
    /\ \E a \in tk[1].answers : a[1] = 5 /\ ~a[2].thrown /\ a[2].data # <<>>
    /\ Len(tk[1].durations) >= 2
    /\ teams[1].meta.avgTriageTimeMs = AverageOf(tk[1].durations)

\* C26: a team is emitted in estimation mode (usesEstimation true,
\* metricType 'story_points') exactly when the upstream gave it an
\* estimation type other than 'notUsed', whatever that type is; a team
\* without estimation type (the field missing or null) or with 'notUsed' is
\* emitted in issue-count mode (usesEstimation false, metricType 'issues');
\* there is no third mode.
C26_EstimationMode ==
    \A t \in 1..Len(tk) :
        tk[t].tpc = "done" =>
            LET m == tk[t].out[1].base
                type == data.nodes[t].issueEstimationType
            IN  /\ type \in {"fibonacci", "tShirt", "", "NotUsed"} =>
                    (m.usesEstimation /\ m.metricType = "story_points")
                /\ type \in {Undefined, Null, "notUsed"} =>
                    (~m.usesEstimation /\ m.metricType = "issues")
                /\ type \in {"fibonacci", "tShirt", "", "NotUsed",
                              Undefined, Null, "notUsed"}

\* C27: the first combined attempt asks for INITIAL_ISSUES_PAGE issues, a
\* number in [10,100]; the retry after a complexity error asks for the
\* minimum of 50 and that size, and this is a smaller size than the one of
\* the first attempt.
C27_RetryStrictlySmaller ==
    /\ Len(combined) >= 1 =>
        /\ combined[1].issuesPage = INITIAL_ISSUES_PAGE
        /\ ~combined[1].issuesPage.nan
        /\ combined[1].issuesPage.v \in 10..100
    /\ Len(combined) >= 2 =>
        /\ combined[2].issuesPage = MathMin(Num(50), combined[1].issuesPage)
        /\ combined[2].issuesPage.v < combined[1].issuesPage.v

\* Whether a page says that more pages follow.
SaysHasNext(page) == page.present /\ page.hasPageInfo /\ page.hasNextPage

\* C28: fetchAllCycleIssues is about to issue a follow-up page request only
\* when the page it received last, the first page or a follow-up page, came
\* with issues and with hasNextPage = true; so after a page with hasNextPage
\* = false or without page info, and after an empty follow-up page, no
\* request follows, and a first page with hasNextPage = false is followed
\* by no request at all.
C28_RequestsOnlyWhileHasNext ==
    \A t \in 1..Len(tk) :
        LET st == tk[t]
            firstPage == data.nodes[t].issues
        IN  /\ st.tpc = "page" =>
                IF Len(st.reqs) = 0 THEN SaysHasNext(firstPage)
                ELSE /\ ~st.last.thrown
                     /\ SaysHasNext(st.last.data)
                     /\ Len(st.last.data.nodes) > 0
            /\ Len(st.reqs) > 0 => SaysHasNext(firstPage)
            /\ (Len(st.reqs) > 0 /\ ~st.last.thrown
                 /\ ~SaysHasNext(st.last.data)) => st.tpc = "done"

\* The pagination returned after one follow-up page, which came with issues
\* and page info saying that no page follows.
C28_Witness ==
    /\ tk[1].tpc = "done"
    /\ Len(tk[1].reqs) = 1
    /\ ~tk[1].last.thrown
    /\ Len(tk[1].last.errors) = 0
    /\ Len(tk[1].last.data.nodes) > 0
    /\ tk[1].last.data.hasPageInfo
    /\ ~tk[1].last.data.hasNextPage
    /\ Len(tk[1].issues) = Len(FirstNodes(1)) + Len(tk[1].last.data.nodes)

\* What an issue adds to the scope of its team: 1 in issue-count mode, its
\* points, if it has any, in estimation mode.
Contribution(issue, usesEstimation) ==
    IF ~usesEstimation THEN 1
    ELSE IF issue.estimate.has /\ issue.estimate.v > 0 THEN issue.estimate.v
    ELSE 0

\* What the issues of the given state types add together.
ContributionOf(issues, types, usesEstimation) ==
    SumSeq([i \in 1..Len(issues) |->
              IF issues[i].state.type \in types
              THEN Contribution(issues[i], usesEstimation) ELSE 0])

\* C29: in both modes, started is what the issues of state type 'started'
\* add and completed what the issues of type 'completed' add, while scope
\* is what all issues add: an issue of any other type ('triage', 'backlog',
\* 'canceled', 'Started', 'COMPLETED') adds to scope alone.
C29_OtherTypesCountForScopeOnly ==
    \A t \in 1..Len(tk) :
        tk[t].tpc = "done" =>
            LET m == tk[t].out[1].base
                issues == tk[t].issues
                uses == data.nodes[t].issueEstimationType = "fibonacci"
                otherTypes == StateTypes \ {"started", "completed"}
            IN  /\ m.started = ContributionOf(issues, {"started"}, uses)
                /\ m.completed = ContributionOf(issues, {"completed"}, uses)
                /\ m.scope = m.started + m.completed
                              + ContributionOf(issues, otherTypes, uses)

\* An estimating team with three issues of 3 points each, of the types
\* 'Started', 'canceled' and 'completed': scope 9, started 0, completed 3.
C29_Witness ==
    /\ tk[1].tpc = "done"
    /\ data.nodes[1].issueEstimationType = "fibonacci"
    /\ Len(tk[1].issues) = 3
    /\ \E i \in 1..3 : tk[1].issues[i].state.type = "Started"
    /\ \E i \in 1..3 : tk[1].issues[i].state.type = "canceled"
    /\ \E i \in 1..3 : tk[1].issues[i].state.type = "completed"
    /\ tk[1].out[1].base.scope = 9
    /\ tk[1].out[1].base.started = 0
    /\ tk[1].out[1].base.completed = 3

\* completedAt minus startedAt, or minus createdAt without a startedAt.
RawCycleTime(issue) ==
    issue.completedAt.v
    - (IF issue.startedAt.has THEN issue.startedAt.v ELSE issue.createdAt)

\* The raw durations of the issues with a completedAt, floored at 0, added.
CycleTotal(issues) ==
    SumSeq([i \in 1..Len(issues) |->
              IF issues[i].completedAt.has /\ RawCycleTime(issues[i]) > 0
              THEN RawCycleTime(issues[i]) ELSE 0])

\* C30: avgCycleTimeMs is undefined when no issue has a completedAt; else it
\* is the mean, rounded to the nearest integer (a half upwards), of
\* max(0, completedAt - (startedAt or createdAt)) over the issues with a
\* completedAt, the ones with a negative raw duration among them.
C30_AvgCycleTime ==
    \A t \in 1..Len(tk) :
        tk[t].tpc = "done" =>
            LET avg == tk[t].out[1].meta.avgCycleTimeMs
                issues == tk[t].issues
                n == Cardinality({i \in 1..Len(issues) :
                                     issues[i].completedAt.has})
                total == CycleTotal(issues)
            IN  IF n = 0 THEN ~avg.has
                ELSE /\ avg.has
                     /\ 2 * n * avg.v <= 2 * total + n
                     /\ 2 * total + n < 2 * n * avg.v + 2 * n

\* Three issues: one completed at 8 and started at 3 (5), one completed at 4
\* and started at 9 (-5, counted as 0) and one not completed: the average
\* is round(5 / 2) = 3.
C30_Witness ==
    /\ tk[1].tpc = "done"
    /\ Len(tk[1].issues) = 3
    /\ \E i \in 1..3 : /\ tk[1].issues[i].completedAt = Some(8)
                        /\ tk[1].issues[i].startedAt = Some(3)
    /\ \E i \in 1..3 : /\ tk[1].issues[i].completedAt = Some(4)
                        /\ tk[1].issues[i].startedAt = Some(9)
    /\ \E i \in 1..3 : ~tk[1].issues[i].completedAt.has
    /\ tk[1].out[1].meta.avgCycleTimeMs = Some(3)

\* The number of issues computeAccurateTriageAvg samples of a list.
SampleSizeOf(issues) ==
    IF Len(issues) < MAX_HISTORY_ISSUES THEN Len(issues) ELSE MAX_HISTORY_ISSUES

\* C31: with accurate triage, a team causes at most 40 history requests:
\* requests go to the first 40 issues of its list alone, and when the team
\* is emitted each of them had its request; a team without issues causes no
\* request and is emitted with the approximate triage time.
C31_SampleOfFirstForty ==
    \A t \in 1..Len(tk) :
        LET st == tk[t] IN
        /\ st.historyReqs <= MAX_HISTORY_ISSUES
        /\ (Answered(st) \cup st.inflight) \subseteq 1..SampleSizeOf(st.issues)
        /\ st.tpc = "done" =>
            /\ Answered(st) = 1..SampleSizeOf(st.issues)
            /\ st.historyReqs = SampleSizeOf(st.issues)
        /\ (st.tpc = "done" /\ st.issues = <<>>) =>
            /\ st.historyReqs = 0
            /\ st.out[1].meta.avgTriageTimeMs = avgTriageTimeMs(st.issues)

\* The history requests outstanding, of all teams together.
Outstanding == SumSeq([t \in 1..Len(tk) |-> Cardinality(tk[t].inflight)])

\* C32: during a fetch with accurate triage, the history requests
\* outstanding, of all teams together, are never more than the history
\* concurrency.
C32_OutstandingBoundedOverall ==
    IF CONCURRENCY.nan THEN Outstanding = 0
    ELSE 2 * Outstanding <= Twice(CONCURRENCY)

\* C33: the process constructs at most one client: an instance exists exactly
\* when one was constructed, every invocation that awaits an answer, in turn
\* or pending beside it, got the instance, a fetch that throws for the
\* missing key leaves no instance, and once an instance exists no step
\* replaces it or constructs another, whatever the key is by then, however
\* many fetches follow or overlap and whichever caller (a fetch,
\* refreshCache) asks for the client; a fetch invoked with the key set does
\* not fail for the key, and a call of refreshCache with the key set leaves
\* a client.
C33_ClientConstructedOnce ==
    /\ [](/\ constructed <= 1
          /\ apolloClientInstance <=> constructed = 1
          /\ \A c \in {Locals} \cup {others[i] : i \in 1..Len(others)} :
                c.pc \in {"first", "retry", "light", "leads"} =>
                    apolloClientInstance)
    /\ [][/\ apolloClientInstance =>
                (apolloClientInstance' /\ constructed' = constructed)
          /\ (others' = others /\ pc = "start" /\ pc' = "thrown") =>
                (~apolloClientInstance /\ ~apolloClientInstance'
                 /\ ~LINEAR_API_KEY /\ constructed' = 0
                 /\ error' = MissingKeyError)
          /\ (others' = others /\ pc = "start" /\ LINEAR_API_KEY
              /\ pc' # "start") =>
                (apolloClientInstance' /\ pc' = "first")
          /\ (LINEAR_API_KEY /\ pc' = pc /\ LINEAR_API_KEY'
              /\ constructed' # constructed) =>
                (~apolloClientInstance /\ apolloClientInstance')]_vars

\* Two fetches overlap: the one invoked first has received the answer to
\* its combined query and awaits its leads, the one invoked during it, after
\* the key was removed, has its combined query in flight on the one client
\* constructed by the first.
C33_Witness ==
    /\ ~LINEAR_API_KEY
    /\ apolloClientInstance
    /\ constructed = 1
    /\ pc = "first"
    /\ Len(others) = 1
    /\ others[1].pc = "leads"
    /\ Len(others[1].combined) > 0

\* C34: a team without active cycle causes no request of its own in any
\* mode, neither the label re-fetch of the light mode nor a follow-up page
\* nor a history request of the accurate triage; its callback returns at
\* once, with cycle null, scope, started and completed 0, the three
\* percentages 0, an empty label table and the three averages undefined.
C34_NoCycleNoRequests ==
    \A t \in 1..Len(tk) :
        ~data.nodes[t].hasActiveCycle =>
            LET st == tk[t]
                m == st.out[1]
            IN  /\ st.refetches = 0
                /\ st.reqs = <<>>
                /\ st.historyReqs = 0
                /\ st.inflight = {}
                /\ st.tpc = "done"
                /\ ~m.base.cycle
                /\ m.base.scope = 0
                /\ m.base.started = 0
                /\ m.base.completed = 0
                /\ m.base.scopePercentage = 0
                /\ m.base.startedPercentage = 0
                /\ m.base.completedPercentage = 0
                /\ m.labelCounts = <<>>
                /\ ~m.meta.avgCycleTimeMs.has
                /\ ~m.meta.avgOpenAgeMs.has
                /\ ~m.meta.avgTriageTimeMs.has

\* After the light query, with accurate triage enabled: the team without
\* cycle has returned while the other team's label re-fetch is outstanding.
C34_Witness ==
    /\ needFirstPageLabelRefetch
    /\ ENABLE_ACCURATE_TRIAGE
    /\ Len(tk) = 2
    /\ ~data.nodes[1].hasActiveCycle
    /\ tk[1].tpc = "done"
    /\ tk[2].tpc = "refetch"

\* What C35 compares of a team's TeamMetrics: scope, started, completed, the
\* percentages (the whole result of calculateTeamMetrics) and the label table.
OwnMetrics(m) == [base |-> m.base, labelCounts |-> m.labelCounts]

\* C35: of two fetches that agree on the combined query's result and on
\* every answer to the requests for the first team's cycle, the first team's
\* callbacks, once they have received as many answers, are at the same
\* point with the same issues; once both have returned they have returned
\* the same metrics and label table, and both fetches emit the team with
\* them at its position, whatever the answers to the other team's requests
\* and whatever the order in which the requests are answered.
C35_TeamDependsOnOwnResponses ==
    LET a == Locals
        b == others[1]
    IN  /\ (a.tk # <<>> /\ b.tk # <<>>) =>
            /\ (/\ a.tk[1].refetches = b.tk[1].refetches
                /\ Len(a.tk[1].reqs) = Len(b.tk[1].reqs)) =>
                    /\ a.tk[1].tpc = b.tk[1].tpc
                    /\ a.tk[1].issues = b.tk[1].issues
            /\ (a.tk[1].tpc = "done" /\ b.tk[1].tpc = "done") =>
                    /\ a.tk[1].issues = b.tk[1].issues
                    /\ OwnMetrics(a.tk[1].out[1]) = OwnMetrics(b.tk[1].out[1])
        /\ (a.pc = "done" /\ b.pc = "done") =>
                OwnMetrics(a.teams[1]) = OwnMetrics(b.teams[1])
        /\ a.pc = "done" =>
                OwnMetrics(a.teams[1]) = OwnMetrics(a.tk[1].out[1])

\* Both fetches have returned the first team with issues of a follow-up page
\* and their labels; the second team's label re-fetch threw in one fetch and
\* brought its issues in the other; the first team's callback returned
\* before the second team's in one fetch and after it in the other.
C35_Witness ==
    /\ pc = "done"
    /\ others[1].pc = "done"
    /\ needFirstPageLabelRefetch
    /\ Len(tk[1].reqs) = 1
    /\ Len(tk[1].issues) > 2
    /\ teams[1].labelCounts # <<>>
    /\ tk[2].refetchThrew
    /\ ~others[1].tk[2].refetchThrew
    /\ others[1].tk[2].issues # <<>>
    /\ teams[2] # others[1].teams[2]
    /\ completion = <<1, 2>>
    /\ others[1].completion = <<2, 1>>

\* C36: for every team, in either mode, and every issue list, the started
\* and the completed work together are no more than the scope, and so is
\* each of them; the sum of the two is the one the numbers of the result
\* have, in doubles when they are no whole numbers.
C36_StartedPlusCompletedWithinScope ==
    \A t \in 1..Len(tk) :
        tk[t].tpc = "done" =>
            LET m == tk[t].out[1].base
            IN  IF m.usesEstimation /\ Fractional(tk[t].issues)
                THEN /\ DoubleLessEq(DoublePlus(m.started, m.completed), m.scope)
                     /\ DoubleLessEq(m.started, m.scope)
                     /\ DoubleLessEq(m.completed, m.scope)
                ELSE /\ m.started + m.completed <= m.scope
                     /\ m.started <= m.scope
                     /\ m.completed <= m.scope

\* C37: along the ladder the requested page size never increases: every
\* combined attempt after the first asks for no more issues than the attempt
\* before it.
C37_PageSizeNeverIncreases ==
    \A i \in 2..Len(combined) :
        GreaterEq(combined[i - 1].issuesPage, combined[i].issuesPage)

\* C38: within one run of fetchAllCycleIssues no two follow-up page requests
\* carry the same cursor, whatever the upstream answers.
C38_NoCursorRequestedTwice ==
    \A t \in 1..Len(tk) :
        \A i, j \in 1..Len(tk[t].reqs) :
            i < j => tk[t].reqs[i] # tk[t].reqs[j]

\* C39: after the light query, no issue the light query returned is among a
\* team's issues: the nodes of a team with an active cycle all come from
\* requests that select the labels, and a team whose label re-fetch threw or
\* brought no page is emitted with no issues, with zero metrics and an empty
\* label table, whatever the light query had returned for it.
C39_LightPageNeverUsed ==
    \A t \in 1..Len(tk) :
        (needFirstPageLabelRefetch /\ data.nodes[t].hasActiveCycle) =>
            LET st == tk[t] IN
            /\ \A i \in 1..Len(st.all) : st.all[i].labels
            /\ st.tpc = "refetch" => (st.all = <<>> /\ st.issues = <<>>)
            /\ (st.refetches = 1 /\ (st.refetchThrew \/ st.first = <<>>)) =>
                /\ st.tpc = "done"
                /\ st.reqs = <<>>
                /\ st.issues = <<>>
                /\ st.out[1].base.scope = 0
                /\ st.out[1].base.started = 0
                /\ st.out[1].base.completed = 0
                /\ st.out[1].labelCounts = <<>>

\* The fetch returned after the light query: one team's re-fetch brought no
\* page although the light query had returned issues for it, and the other
\* team's issues are the re-fetched page and a follow-up page.
C39_Witness ==
    /\ pc = "done"
    /\ needFirstPageLabelRefetch
    /\ \E t \in 1..Len(tk) :
            /\ tk[t].refetches = 1
            /\ ~tk[t].refetchThrew
            /\ tk[t].first = <<>>
            /\ Len(FirstNodes(t)) > 0
            /\ teams[t].base.scope = 0
    /\ \E t \in 1..Len(tk) :
            /\ tk[t].refetches = 1
            /\ Len(tk[t].first) > 0
            /\ Len(tk[t].reqs) > 0
            /\ Len(tk[t].issues) > Len(tk[t].first)

\* Every issue of the task had its history request, and every request
\* resolved with a history without an event leaving triage or backlog.
AllHistoriesQuiet(st) ==
    /\ Answered(st) = 1..Len(st.issues)
    /\ \A a \in st.answers : ~a[2].thrown /\ Leaving(a[2].data) = 0

\* C40: for a team of at most 40 issues whose history requests all succeed
\* and hold no event leaving triage or backlog, the triage time emitted in
\* accurate mode is the triage time of the approximate mode for the same
\* issues.
C40_AccurateEqualsApproximate ==
    \A t \in 1..Len(tk) :
        LET st == tk[t] IN
        (/\ ENABLE_ACCURATE_TRIAGE
         /\ st.tpc = "done"
         /\ Len(st.issues) <= MAX_HISTORY_ISSUES
         /\ AllHistoriesQuiet(st)) =>
            st.out[1].meta.avgTriageTimeMs = avgTriageTimeMs(st.issues)

====
